---- MODULE Spec2Model ----
(***************************************************************************)
(* Model of the MindMap ingestion pipeline                                 *)
(* (backend/app/workers/ingestion.py) together with the two stores it      *)
(* writes: the CouchDB document/page store (backend/app/db/client.py) and  *)
(* the Chroma vector collection (backend/app/vector/client.py).            *)
(*                                                                         *)
(* ingest_document and its page tasks are asyncio coroutines: a step of    *)
(* the model is the code a coroutine runs between two suspension points    *)
(* (an await of a thread, of a provider call, or of gather).  One document *)
(* is ingested.  Spec is the ingestion upload_document enqueues, one call  *)
(* per document; SpecRerun lets ingest_document be called on the document  *)
(* again after a call that completed it with every page ready.            *)
(*                                                                         *)
(* Text is a sequence of lines; a line of "" or " " is whitespace.         *)
(***************************************************************************)
EXTENDS Integers, Sequences, FiniteSets, TLC

\* ---------------------------------------------------------------- bounds
MaxPages == 2
MaxConcurrency == 2
MaxRuns == 2
\* records in the vector collection, top_k of a query, tokens of an answer
MaxStored == 3
MaxTopK == 2
MaxTokens == 3

PageNos == 0 .. (MaxPages - 1)

\* ------------------------------------------------------------------ text
Whitespace == {"", " "}

IsBlankLine(l) == l \in Whitespace

RECURSIVE LStrip(_)
LStrip(t) ==
    IF t = <<>> THEN <<>>
    ELSE IF IsBlankLine(Head(t)) THEN LStrip(Tail(t))
    ELSE t

RECURSIVE RStrip(_)
RStrip(t) ==
    IF t = <<>> THEN <<>>
    ELSE IF IsBlankLine(t[Len(t)]) THEN RStrip(SubSeq(t, 1, Len(t) - 1))
    ELSE t

\* str.strip(): leading and trailing whitespace removed
Strip(t) == RStrip(LStrip(t))

\* the truth value of text.strip()
NonBlank(t) == Strip(t) # <<>>

\* ------------------------------------------------------- PDF page content
\* what extract_all_page_content returns for a page: text, tables, images
BlankContent == [text |-> "", tables |-> <<>>, images |-> 0]
TextContent  == [text |-> "page text.", tables |-> <<>>, images |-> 0]
ImageContent == [text |-> "", tables |-> <<>>, images |-> 1]

Contents == {BlankContent, TextContent, ImageContent}

\* the source PDFs: n consecutive pages of a repeating text, blank, image,
\* text, ... layout, starting anywhere in it
Layout == <<TextContent, BlankContent, ImageContent>>

PdfFile(first, n) == [i \in 1 .. n |-> Layout[((first + i - 1) % Len(Layout)) + 1]]

PdfFiles == {PdfFile(first, n) : first \in 0 .. (Len(Layout) - 1), n \in 0 .. MaxPages}

TableHeader(i) == IF i = 1 THEN "Table 1:" ELSE "Table n:"

RECURSIVE TableLines(_, _)
TableLines(tables, i) ==
    IF i > Len(tables) THEN <<>>
    ELSE <<TableHeader(i), tables[i], "">> \o TableLines(tables, i + 1)

_combine_page_content(content) ==
    (IF content.text # "" THEN <<"TEXT CONTENT:", content.text, "">> ELSE <<>>)
    \o (IF content.tables # <<>>
        THEN <<"TABLES:">> \o TableLines(content.tables, 1) ELSE <<>>)
    \o (IF content.images > 0
        THEN <<"IMAGES: image(s) found on this page",
               "(Image content will be extracted and described)">>
        ELSE <<>>)

\* what the vision model may answer for a page image
RewriteOutputs == {<<" ">>, <<"rewritten page.", " ">>}

\* _extract_and_rewrite_content: the stripped answer of the vision model,
\* or the extracted content when the provider has no vision branch, the
\* preview is missing or the call raises
RewriteResults(extracted_content) ==
    {Strip(r) : r \in RewriteOutputs} \cup {extracted_content}

\* ------------------------------------------------------------- chunking
RECURSIVE Sentences(_)
Sentences(t) ==
    IF t = <<>> THEN <<>>
    ELSE IF IsBlankLine(Head(t)) THEN Sentences(Tail(t))
    ELSE <<Head(t)>> \o Sentences(Tail(t))

\* chunk_page_text, with the size thresholds scaled down to one sentence
\* (one non-blank line) per chunk; chunk_index is the 0-based position
chunk_page_text(text, page_no) ==
    IF ~NonBlank(text) THEN <<>>
    ELSE [i \in 1 .. Len(Sentences(text)) |->
            [text |-> Sentences(text)[i], page_no |-> page_no,
             chunk_index |-> i - 1]]

\* line 111: chunks = chunk_page_text(text, page_no) if text.strip() else []
PageChunks(text, page_no) ==
    IF NonBlank(text) THEN chunk_page_text(text, page_no) ELSE <<>>

\* ---------------------------------------------------------------- stores
\* a document id is a string of characters; upload_document builds it as
\* doc_<timestamp>_<user id>
DocId == <<"d", "o", "c", "_", "1">>

NoDoc == [type |-> "none"]

NoError == "<no error field>"

\* the record upload_document saves before it enqueues the ingestion
UploadedDoc ==
    [type |-> "document", id |-> DocId, page_count |-> 0,
     ingestion_completed |-> FALSE, ingestion_completed_at |-> 0,
     embedding_provider |-> "",
     ingestion_failed |-> FALSE, ingestion_error |-> "",
     ingestion_failed_at |-> 0]

PageId(page_no) == <<DocId, "page", page_no>>

DecimalDigits == <<"0", "1", "2", "3", "4", "5", "6", "7", "8", "9">>

\* str(n) of an integer n >= 0: its decimal digits
RECURSIVE str(_)
str(n) ==
    IF n < 10 THEN <<DecimalDigits[n + 1]>>
    ELSE str(n \div 10) \o <<DecimalDigits[(n % 10) + 1]>>

\* the three parts in a row, nothing between them
PointId_unseparated(chunk) ==
    chunk.doc_id \o str(chunk.page_no) \o str(chunk.chunk_index)

\* f"{chunk['doc_id']}_{chunk['page_no']}_{chunk['chunk_index']}"
PointId(chunk) ==
    chunk.doc_id \o <<"_">> \o str(chunk.page_no) \o <<"_">> \o str(chunk.chunk_index)

\* Database.save of a document that carries an _id and no _rev: CouchDB
\* rejects it with a conflict when a document with that _id exists
SaveConflicts(db, doc) == \E r \in db : r.id = doc.id

save_doc(db, doc) == db \cup {doc}

\* dict.update on the stored document followed by a save with its _rev
update_doc(doc, updates) ==
    [f \in DOMAIN doc |-> IF f \in DOMAIN updates THEN updates[f] ELSE doc[f]]

\* collection.upsert: one record per id, the new record replaces the old
upsert_chunks(collection, chunk_data) ==
    LET new == {[id |-> PointId(chunk_data[i]),
                 doc_id |-> chunk_data[i].doc_id,
                 page_no |-> chunk_data[i].page_no,
                 chunk_index |-> chunk_data[i].chunk_index,
                 document |-> chunk_data[i].text,
                 run |-> chunk_data[i].run] : i \in DOMAIN chunk_data}
    IN  {r \in collection : \A n \in new : n.id # r.id} \cup new

\* ----------------------------------------------------------------- state
VARIABLES
    ingestion_concurrency,  \* config.ingestion_concurrency
    file_exists,            \* os.path.exists(file_path)
    pdf_pages,              \* content of each page of the source PDF
    documents_db,           \* the document record, or NoDoc
    pages_db,               \* the page records
    vectors,                \* the records of the vector collection
    now,                    \* number of ingest_document calls so far (clock)
    main,                   \* ingest_document: idle, gather, returned, raised
    main_error,             \* str(e) of the error ingest_document raised
    semaphore,              \* free permits
    task,                   \* the page tasks of the current call
    faults,                 \* operations that failed in the current call
    ranked,                 \* the collection, nearest to the query first
    query,                  \* arguments of RetrievalEngine.retrieve
    outcomes,               \* which calls to the outside succeed
    retrieval,              \* what the retrieve call did and returned
    response_text,          \* the LLM's answer, as a sequence of tokens
    qa_chunks,              \* the chunks retrieved for the question
    citations,              \* what extract_citations returned
    config,                 \* config.openai_api_key, config.allow_local_ollama
    request,                \* QuestionRequest of the Q&A stream
    stream,                 \* generate_answer: position, answer, events sent
    qa_db,                  \* the Q&A records
    llm_call,               \* the summarizer's LLM call and what it returned
    vision,                 \* the rewriter's provider, preview, call and result
    chunker,                \* TextChunker.chunk_text: input, loop state, chunks
    _jobs,                  \* background_tasks._jobs
    background_tasks,       \* tasks added to BackgroundTasks and not yet run
    regeneration,           \* regenerate_summaries: pages to process, results
    extractor,              \* PDFExtractor: what the libraries do, the content
    deletion,               \* delete_document: its response
    lookup                  \* a search of the collection for one chunk

\* the variables of the parts of a page task that are studied on their own,
\* and of the job registry
\* the variables of the maintenance calls and of the page extractor
tool_vars == <<regeneration, extractor, deletion, lookup>>

part_vars == <<llm_call, vision, chunker, _jobs, background_tasks, tool_vars>>

\* the variables of the question answering side, which ingestion never writes
qa_vars == <<ranked, query, outcomes, retrieval, response_text, qa_chunks,
             citations, config, request, stream, qa_db, part_vars>>

vars == <<ingestion_concurrency, file_exists, pdf_pages, documents_db,
          pages_db, vectors, now, main, main_error, semaphore, task, faults,
          qa_vars>>

env == <<ingestion_concurrency, file_exists, pdf_pages, qa_vars>>

page_count == Len(pdf_pages)

RunPages == 0 .. (page_count - 1)

NoTask == [pc |-> "none", text |-> <<>>, summary |-> "", key_terms |-> <<>>,
           error |-> "", raised |-> FALSE]

Holding == {"extract", "embed", "upsert", "summary", "save", "except"}

Holders == {p \in PageNos : task[p].pc \in Holding}

Settled(p) == task[p].pc \in {"none", "done"}

\* ------------------------------------------------------ the sides at rest
ingestion_vars == <<ingestion_concurrency, file_exists, pdf_pages, documents_db,
                    pages_db, vectors, now, main, main_error, semaphore, task,
                    faults>>

\* no ingestion runs and none has run
IngestionIdle ==
    /\ ingestion_concurrency = MaxConcurrency
    /\ file_exists = TRUE
    /\ pdf_pages = <<>>
    /\ pages_db = {}
    /\ vectors = {}
    /\ now = 0
    /\ main = "idle"
    /\ main_error = ""
    /\ semaphore = 0
    /\ task = [p \in PageNos |-> NoTask]
    /\ faults = {}

NoQuery == [doc_id |-> DocId, page_no |-> 0, scope_mode |-> "page", top_k |-> 1]

NoRetrieval == [pc |-> "idle", searches |-> <<>>, final_results |-> <<>>]

\* no retrieve is called
RetrievalIdle ==
    /\ ranked = <<>>
    /\ query = NoQuery
    /\ outcomes = [embed |-> TRUE, search |-> <<TRUE, TRUE>>]
    /\ retrieval = NoRetrieval

NoCitations == [extracted |-> FALSE, list |-> <<>>]

\* no extract_citations is called
CitationsIdle ==
    /\ response_text = <<>>
    /\ qa_chunks = <<>>
    /\ citations = NoCitations

NoStream == [pc |-> "idle", full_answer |-> <<>>, events |-> <<>>]

\* no question is asked
StreamIdle ==
    /\ config = [openai_api_key |-> TRUE, allow_local_ollama |-> FALSE]
    /\ request = [page_no |-> 0, scope_mode |-> "page", llm_provider |-> "gpt",
                  embedding_provider |-> "openai_small"]
    /\ stream = NoStream
    /\ qa_db = {}

\* no summarizer call was made
NoCall == [page |-> -1, text |-> <<>>, ok |-> TRUE, full_response |-> <<>>,
           returned |-> FALSE, summary |-> <<>>, key_terms |-> <<>>]

\* no call of the vision rewriter was made
NoVision == [returned |-> FALSE, page |-> -1, provider |-> "", client |-> {},
             preview |-> TRUE, outcome |-> "", extracted_content |-> <<>>,
             rewritten_text |-> <<>>]

NoChunker == [pc |-> "idle"]

NoRegeneration == [pc |-> "idle"]

NoExtractor == [pc |-> "idle"]

NoDeletion == [pc |-> "idle"]

NoLookup == [pc |-> "idle"]

\* no maintenance call is made, no page is extracted on its own
ToolsIdle ==
    /\ regeneration = NoRegeneration
    /\ extractor = NoExtractor
    /\ deletion = NoDeletion
    /\ lookup = NoLookup

\* no part of a page task is run on its own, no job is registered
PartsIdle ==
    /\ llm_call = NoCall
    /\ vision = NoVision
    /\ chunker = NoChunker
    /\ _jobs = <<>>
    /\ background_tasks = <<>>
    /\ ToolsIdle

Init ==
    /\ ingestion_concurrency \in {0, MaxConcurrency}
    /\ file_exists \in BOOLEAN
    /\ pdf_pages \in PdfFiles
    /\ documents_db \in {NoDoc, UploadedDoc}
    /\ pages_db = {}
    /\ vectors = {}
    /\ now = 0
    /\ main = "idle"
    /\ main_error = ""
    /\ semaphore = 0
    /\ task = [p \in PageNos |-> NoTask]
    /\ faults = {}
    /\ RetrievalIdle
    /\ CitationsIdle
    /\ StreamIdle
    /\ PartsIdle

\* ------------------------------------------------------- ingest_document
Max(a, b) == IF a >= b THEN a ELSE b

\* couch_client.update_doc: False and no write when the record is missing
\* or the store call fails (applied = FALSE)
TryUpdate(doc, updates, applied) ==
    IF doc = NoDoc \/ ~applied THEN doc ELSE update_doc(doc, updates)

\* run_ingestion_task awaits ingest_document(doc_id)
CanStart == main = "idle"

FatalErrors == {"Document not found", "PDF file not found",
                "Failed to open PDF", "Provider not available"}

\* the conditions of lines 39-67 under which each fatal error is raised;
\* get_doc also answers None when the read fails
FatalPossible(e) ==
    CASE e = "Document not found" -> TRUE
      [] e = "PDF file not found" -> documents_db # NoDoc /\ ~file_exists
      [] OTHER -> documents_db # NoDoc /\ file_exists

FatalFault(e) ==
    CASE e = "Document not found" ->
            IF documents_db = NoDoc THEN {} ELSE {<<"get_doc", -1>>}
      [] e = "PDF file not found" -> {}
      [] e = "Failed to open PDF" -> {<<"open", -1>>}
      [] OTHER -> {<<"setup", -1>>}

\* the exception handler of ingest_document, lines 183-191
FailedUpdates(e, at) ==
    [ingestion_failed |-> TRUE, ingestion_error |-> e, ingestion_failed_at |-> at]

IngestFatal_unmarked(e, applied) ==
    /\ CanStart
    /\ FatalPossible(e)
    /\ now' = now + 1
    /\ documents_db' = documents_db
    /\ faults' = FatalFault(e)
    /\ main' = "raised"
    /\ main_error' = e
    /\ task' = [p \in PageNos |-> NoTask]
    /\ semaphore' = 0
    /\ UNCHANGED <<env, pages_db, vectors>>

\* lines 37-67 raise before the fan-out; lines 183-191 mark and re-raise
IngestFatal(e, applied) ==
    /\ CanStart
    /\ FatalPossible(e)
    /\ now' = now + 1
    /\ LET counted == IF e = "Provider not available"
                      THEN update_doc(documents_db, [page_count |-> page_count])
                      ELSE documents_db
       IN  documents_db' = TryUpdate(counted, FailedUpdates(e, now'), applied)
    /\ faults' = FatalFault(e)
                  \cup (IF documents_db # NoDoc /\ ~applied
                        THEN {<<"update_status", -1>>} ELSE {})
    /\ main' = "raised"
    /\ main_error' = e
    /\ task' = [p \in PageNos |-> NoTask]
    /\ semaphore' = 0
    /\ UNCHANGED <<env, pages_db, vectors>>

\* lines 37-172 up to the await of gather: the document and the file are
\* there, the page count is stored, the semaphore and the tasks are created
IngestFanOut ==
    /\ CanStart
    /\ documents_db # NoDoc
    /\ file_exists
    /\ now' = now + 1
    /\ documents_db' = update_doc(documents_db, [page_count |-> page_count])
    /\ faults' = {}
    /\ semaphore' = Max(1, ingestion_concurrency)
    /\ task' = [p \in PageNos |->
                  IF p \in RunPages THEN [NoTask EXCEPT !.pc = "wait"] ELSE NoTask]
    /\ main' = "gather"
    /\ main_error' = ""
    /\ UNCHANGED <<env, pages_db, vectors>>

CompletedUpdates(at) ==
    [ingestion_completed |-> TRUE, ingestion_completed_at |-> at,
     embedding_provider |-> "openai_small"]

GatherReturn_first_done(applied) ==
    /\ main = "gather"
    /\ \E p \in PageNos : task[p].pc = "done" /\ ~task[p].raised
    /\ documents_db' = TryUpdate(documents_db, CompletedUpdates(now), applied)
    /\ faults' = faults \cup (IF documents_db # NoDoc /\ ~applied
                               THEN {<<"update_status", -1>>} ELSE {})
    /\ main' = "returned"
    /\ UNCHANGED <<env, pages_db, vectors, now, main_error, semaphore, task>>

\* gather returns once every task is done and none raised; lines 174-181
GatherReturn(applied) ==
    /\ main = "gather"
    /\ \A p \in PageNos : Settled(p) /\ ~task[p].raised
    /\ documents_db' = TryUpdate(documents_db, CompletedUpdates(now), applied)
    /\ faults' = faults \cup (IF documents_db # NoDoc /\ ~applied
                               THEN {<<"update_status", -1>>} ELSE {})
    /\ main' = "returned"
    /\ UNCHANGED <<env, pages_db, vectors, now, main_error, semaphore, task>>

\* gather raises the exception of the first task that raised, while the
\* other tasks keep running; lines 183-191
GatherRaise(applied) ==
    /\ main = "gather"
    /\ \E p \in PageNos :
         /\ task[p].pc = "done" /\ task[p].raised
         /\ documents_db' = TryUpdate(documents_db, FailedUpdates(task[p].error, now), applied)
         /\ main_error' = task[p].error
    /\ faults' = faults \cup (IF documents_db # NoDoc /\ ~applied
                               THEN {<<"update_status", -1>>} ELSE {})
    /\ main' = "raised"
    /\ UNCHANGED <<env, pages_db, vectors, now, semaphore, task>>

\* ---------------------------------------------------------- process_page
Waiting == {p \in PageNos : task[p].pc = "wait"}

\* async with semaphore: the tasks queue in creation order and a permit
\* goes to the first waiter
Acquire_unbounded(p) ==
    /\ task[p].pc = "wait"
    /\ \A q \in Waiting : p <= q
    /\ semaphore' = semaphore - 1
    /\ task' = [task EXCEPT ![p].pc = "extract"]
    /\ UNCHANGED <<env, documents_db, pages_db, vectors, now, main, main_error, faults>>

Acquire(p) ==
    /\ task[p].pc = "wait"
    /\ \A q \in Waiting : p <= q
    /\ semaphore > 0
    /\ semaphore' = semaphore - 1
    /\ task' = [task EXCEPT ![p].pc = "extract"]
    /\ UNCHANGED <<env, documents_db, pages_db, vectors, now, main, main_error, faults>>

Raise(p, e, op) ==
    /\ task' = [task EXCEPT ![p].pc = "except", ![p].error = e]
    /\ faults' = faults \cup {<<op, p>>}

\* lines 81-90: opening the PDF for the extraction or the preview raises
ExtractFail(p) ==
    /\ task[p].pc = "extract"
    /\ Raise(p, "Failed to open PDF", "extract")
    /\ UNCHANGED <<env, documents_db, pages_db, vectors, now, main, main_error, semaphore>>

\* line 103: text = rewritten_text if rewritten_text.strip() else combined_content
PickText(rewritten_text, combined_content) ==
    IF NonBlank(rewritten_text) THEN rewritten_text ELSE combined_content

ExtractPage_always_embeds(p, rewritten_text) ==
    /\ task[p].pc = "extract"
    /\ LET combined_content == _combine_page_content(pdf_pages[p + 1])
           text == PickText(rewritten_text, combined_content)
       IN  /\ rewritten_text \in RewriteResults(combined_content)
           /\ task' = [task EXCEPT ![p].text = text, ![p].pc = "embed"]
    /\ UNCHANGED <<env, documents_db, pages_db, vectors, now, main, main_error,
                   semaphore, faults>>

\* lines 81-111: extract, render the preview, combine, rewrite, pick the
\* text and chunk it
ExtractPage(p, rewritten_text) ==
    /\ task[p].pc = "extract"
    /\ LET combined_content == _combine_page_content(pdf_pages[p + 1])
           text == PickText(rewritten_text, combined_content)
       IN  /\ rewritten_text \in RewriteResults(combined_content)
           /\ task' = [task EXCEPT
                  ![p].text = text,
                  ![p].pc = IF PageChunks(text, p) # <<>> THEN "embed"
                            ELSE IF NonBlank(text) THEN "summary" ELSE "save"]
    /\ UNCHANGED <<env, documents_db, pages_db, vectors, now, main, main_error,
                   semaphore, faults>>

\* line 114: embedding_client.embed(chunk_texts) answers one vector per text
Embed(p) ==
    /\ task[p].pc = "embed"
    /\ task' = [task EXCEPT ![p].pc = "upsert"]
    /\ UNCHANGED <<env, documents_db, pages_db, vectors, now, main, main_error,
                   semaphore, faults>>

EmbedFail(p) ==
    /\ task[p].pc = "embed"
    /\ Raise(p, "OpenAI embedding failed", "embed")
    /\ UNCHANGED <<env, documents_db, pages_db, vectors, now, main, main_error, semaphore>>

\* lines 117-125; run tags the call that wrote the record
ChunkData(p) ==
    LET chunks == PageChunks(task[p].text, p)
    IN  [i \in DOMAIN chunks |->
            [doc_id |-> DocId, page_no |-> p, chunk_index |-> i - 1,
             text |-> chunks[i].text, run |-> now]]

\* line 128
Upsert(p) ==
    /\ task[p].pc = "upsert"
    /\ vectors' = upsert_chunks(vectors, ChunkData(p))
    /\ task' = [task EXCEPT ![p].pc = IF NonBlank(task[p].text) THEN "summary" ELSE "save"]
    /\ UNCHANGED <<env, documents_db, pages_db, now, main, main_error, semaphore, faults>>

UpsertFail_ignored(p) ==
    /\ task[p].pc = "upsert"
    /\ task' = [task EXCEPT ![p].pc = "summary"]
    /\ faults' = faults
    /\ UNCHANGED <<env, documents_db, pages_db, vectors, now, main, main_error, semaphore>>

\* line 128 raises
UpsertFail(p) ==
    /\ task[p].pc = "upsert"
    /\ Raise(p, "Error upserting chunks", "upsert")
    /\ UNCHANGED <<env, documents_db, pages_db, vectors, now, main, main_error, semaphore>>

\* what _generate_summary_and_terms returns: a parsed answer, or "" and []
\* when the call fails
SummaryResults ==
    {[summary |-> "explanation", key_terms |-> <<"term1">>],
     [summary |-> "", key_terms |-> <<>>]}

\* lines 132-135
Summarize(p, result) ==
    /\ task[p].pc = "summary"
    /\ result \in SummaryResults
    /\ task' = [task EXCEPT ![p].summary = result.summary,
                            ![p].key_terms = result.key_terms,
                            ![p].pc = "save"]
    /\ UNCHANGED <<env, documents_db, pages_db, vectors, now, main, main_error,
                   semaphore, faults>>

\* lines 138-149
page_doc(p) ==
    [id |-> PageId(p), type |-> "page", document_id |-> DocId, page_no |-> p,
     text |-> task[p].text, summary |-> task[p].summary,
     key_terms |-> task[p].key_terms, preview_image_path |-> "page.png",
     ready |-> TRUE, error |-> NoError, created_at |-> now]

\* lines 155-167
error_doc(p) ==
    [id |-> PageId(p), type |-> "page", document_id |-> DocId, page_no |-> p,
     text |-> <<>>, summary |-> "", key_terms |-> <<>>,
     preview_image_path |-> "", ready |-> FALSE, error |-> task[p].error,
     created_at |-> now]

Finish_permit_kept(p, raised, e) ==
    /\ semaphore' = IF raised THEN semaphore ELSE semaphore + 1
    /\ task' = [task EXCEPT ![p] = [NoTask EXCEPT !.pc = "done", !.raised = raised,
                                                  !.error = e]]

\* the task ends: leaving "async with semaphore" gives the permit back
\* without suspending; an exception that left the handler stays in the task
Finish(p, raised, e) ==
    /\ semaphore' = semaphore + 1
    /\ task' = [task EXCEPT ![p] = [NoTask EXCEPT !.pc = "done", !.raised = raised,
                                                  !.error = e]]

\* lines 150-151 and the exit of the with block
SavePage(p) ==
    /\ task[p].pc = "save"
    /\ ~SaveConflicts(pages_db, page_doc(p))
    /\ pages_db' = save_doc(pages_db, page_doc(p))
    /\ Finish(p, FALSE, "")
    /\ UNCHANGED <<env, documents_db, vectors, now, main, main_error, faults>>

\* line 150 raises: the store rejects the record, or the call fails
SavePageFail(p, e) ==
    /\ task[p].pc = "save"
    /\ \/ e = "Document update conflict" /\ SaveConflicts(pages_db, page_doc(p))
       \/ e = "Error saving document"
    /\ Raise(p, e, IF e = "Document update conflict" THEN "save_conflict" ELSE "save")
    /\ UNCHANGED <<env, documents_db, pages_db, vectors, now, main, main_error, semaphore>>

SaveErrorPage_unsaved(p) ==
    /\ task[p].pc = "except"
    /\ Finish(p, FALSE, "")
    /\ UNCHANGED <<env, documents_db, pages_db, vectors, now, main, main_error, faults>>

\* lines 153-168: the handler writes the error record; the with block exits
SaveErrorPage(p) ==
    /\ task[p].pc = "except"
    /\ ~SaveConflicts(pages_db, error_doc(p))
    /\ pages_db' = save_doc(pages_db, error_doc(p))
    /\ Finish(p, FALSE, "")
    /\ UNCHANGED <<env, documents_db, vectors, now, main, main_error, faults>>

SaveErrorPageFail_swallowed(p, e) ==
    /\ task[p].pc = "except"
    /\ \/ e = "Document update conflict" /\ SaveConflicts(pages_db, error_doc(p))
       \/ e = "Error saving document"
    /\ Finish(p, FALSE, "")
    /\ faults' = faults \cup {<<IF e = "Document update conflict"
                                 THEN "save_error_conflict" ELSE "save_error", p>>}
    /\ UNCHANGED <<env, documents_db, pages_db, vectors, now, main, main_error>>

\* line 168 raises inside the handler: the exception leaves the task
SaveErrorPageFail(p, e) ==
    /\ task[p].pc = "except"
    /\ \/ e = "Document update conflict" /\ SaveConflicts(pages_db, error_doc(p))
       \/ e = "Error saving document"
    /\ Finish(p, TRUE, e)
    /\ faults' = faults \cup {<<IF e = "Document update conflict"
                                 THEN "save_error_conflict" ELSE "save_error", p>>}
    /\ UNCHANGED <<env, documents_db, pages_db, vectors, now, main, main_error>>

SaveErrors == {"Document update conflict", "Error saving document"}

PageStep(p) ==
    \/ Acquire(p)
    \/ ExtractFail(p)
    \/ \E r \in UNION {RewriteResults(_combine_page_content(c)) : c \in Contents} :
          ExtractPage(p, r)
    \/ Embed(p)
    \/ EmbedFail(p)
    \/ Upsert(p)
    \/ UpsertFail(p)
    \/ \E result \in SummaryResults : Summarize(p, result)
    \/ SavePage(p)
    \/ \E e \in SaveErrors : SavePageFail(p, e)
    \/ SaveErrorPage(p)
    \/ \E e \in SaveErrors : SaveErrorPageFail(p, e)

Next ==
    \/ \E e \in FatalErrors, applied \in BOOLEAN : IngestFatal(e, applied)
    \/ IngestFanOut
    \/ \E applied \in BOOLEAN : GatherReturn(applied)
    \/ \E applied \in BOOLEAN : GatherRaise(applied)
    \/ \E p \in PageNos : PageStep(p)

\* upload_document enqueues one ingestion per document
Spec == Init /\ [][Next]_vars

\* ingest_document is called on the same document again, once the document
\* is marked completed and all its page records are ready
CallAgain ==
    /\ main = "returned"
    /\ documents_db.ingestion_completed
    /\ \A r \in pages_db : r.ready
    /\ \A p \in PageNos : Settled(p)
    /\ now < MaxRuns
    /\ main' = "idle"
    /\ UNCHANGED <<env, documents_db, pages_db, vectors, now, main_error, semaphore,
                   task, faults>>

NextRerun == Next \/ CallAgain

SpecRerun == Init /\ [][NextRerun]_vars

\* ================================================================ claims
Limit == Max(1, ingestion_concurrency)

HasRecord(p) == \E r \in pages_db : r.id = PageId(p)

RecordsOf(p) == {r \in pages_db : r.id = PageId(p)}

Finished == main \in {"returned", "raised"}

Completed == documents_db # NoDoc /\ documents_db.ingestion_completed

\* C1: at any moment at most max(1, ingestion_concurrency) page tasks hold a
\* permit of the semaphore, also when the document has more pages than that
C1_PermitBound == Cardinality(Holders) <= Limit

\* C1 witness: more pages than permits, every permit taken, a task waiting
C1_Witness ==
    /\ page_count > Limit
    /\ Cardinality(Holders) = Limit
    /\ Waiting # {}

\* C2: when the only failure of a call is the extraction of one page, the call
\* ends with a ready record for every other page, a not-ready record with a
\* non-empty error for that page, and the document marked completed
C2_PartialFailureIsolation ==
    \A p \in RunPages :
        (Finished /\ faults = {<<"extract", p>>}) =>
            /\ main = "returned"
            /\ Completed
            /\ \A q \in RunPages \ {p} :
                   /\ HasRecord(q)
                   /\ \A r \in RecordsOf(q) : r.ready
            /\ HasRecord(p)
            /\ \A r \in RecordsOf(p) : ~r.ready /\ r.error \notin {"", NoError}

\* C2 witness: a call over two pages ended, only one extraction failed
C2_Witness ==
    /\ Finished
    /\ page_count >= 2
    /\ \E p \in RunPages : faults = {<<"extract", p>>}

\* C3: ingestion_completed=true written by the current call is on the
\* document only once every page task of the call has ended and no permit
\* is held
C3_CompleteAfterBarrier ==
    (Completed /\ documents_db.ingestion_completed_at = now) =>
                 /\ \A p \in PageNos : Settled(p)
                 /\ Holders = {}
                 /\ semaphore = Limit

\* C3 witness: a document of two pages is marked completed
C3_Witness == Completed /\ page_count >= 2

\* C4: a document marked completed has a page record for every page number
\* below its page count
C4_CompletedHasAllPages ==
    Completed => \A p \in 0 .. (documents_db.page_count - 1) : HasRecord(p)

\* C4 witness: a completed document of two pages, one of them errored
C4_Witness ==
    /\ Completed
    /\ documents_db.page_count >= 2
    /\ \E r \in pages_db : ~r.ready

\* C5: for a ready page record with non-blank text, every chunk index of
\* its text has a record in the vector collection under (document, page,
\* chunk index), holding that chunk's text when the same call wrote it
C5_ReadyPageHasVectors ==
    \A r \in pages_db :
        (r.ready /\ NonBlank(r.text)) =>
            LET chunks == chunk_page_text(r.text, r.page_no)
            IN  \A i \in DOMAIN chunks :
                    \E v \in vectors :
                        /\ v.id = PointId([doc_id |-> DocId, page_no |-> r.page_no,
                                            chunk_index |-> i - 1])
                        /\ v.run = r.created_at => v.document = chunks[i].text

\* C5 witness: a ready page record whose text has two chunks
C5_Witness ==
    \E r \in pages_db :
        r.ready /\ Len(chunk_page_text(r.text, r.page_no)) >= 2

PageOps == {"extract", "embed", "upsert", "save", "save_conflict",
            "save_error", "save_error_conflict"}

ReachedFanOut ==
    \/ main \in {"gather", "returned"}
    \/ main = "raised" /\ main_error \notin FatalErrors

\* C6: an exception raised while a page is processed never leaves the page
\* task, and the page gets a record with ready=false, empty text, summary
\* and key terms, and the error message
C6_PageExceptionContained ==
    \A p \in RunPages :
        (task[p].pc = "done" /\ \E op \in PageOps : <<op, p>> \in faults) =>
            /\ ~task[p].raised
            /\ main # "raised"
            /\ HasRecord(p)
            /\ \A r \in RecordsOf(p) :
                   /\ ~r.ready
                   /\ r.text = <<>> /\ r.summary = "" /\ r.key_terms = <<>>
                   /\ r.error \notin {"", NoError}

\* C7: when a call that reached the fan-out ends, by returning or raising,
\* every page number of the document has exactly one page record
C7_EveryPageOneRecord ==
    (Finished /\ ReachedFanOut) =>
        \A p \in RunPages : Cardinality(RecordsOf(p)) = 1

PreFanOutErrors == {"Document not found", "PDF file not found"}

ConflictFaults == {<<op, p>> : op \in {"save_conflict", "save_error_conflict"},
                              p \in PageNos}

\* C9: a second call on the same document, with no store or provider
\* failing, returns with the document completed, one page record per page
\* carrying the second call's content, and one vector per chunk id
C9_RerunOverwrites ==
    (now >= 2 /\ Finished /\ (\A p \in PageNos : Settled(p))
       /\ faults \subseteq ConflictFaults) =>
        /\ main = "returned"
        /\ Completed
        /\ documents_db.ingestion_completed_at = now
        /\ \A p \in RunPages :
               /\ Cardinality(RecordsOf(p)) = 1
               /\ \A r \in RecordsOf(p) : r.created_at = now
        /\ \A v, w \in vectors : v.id = w.id => v = w

VectorsOf(p) == {v \in vectors : v.doc_id = DocId /\ v.page_no = p}

\* C10 as stated: after a call in which nothing failed, a page without
\* extractable text has no vectors, an empty summary, no key terms and a
\* ready record, a page with extractable text has vectors and a summary,
\* and the document is completed
C10_NoTextPageEmpty ==
    (main = "returned" /\ faults = {}) =>
        /\ Completed
        /\ \A p \in RunPages : \A r \in RecordsOf(p) :
               /\ r.ready
               /\ IF pdf_pages[p + 1].text = ""
                  THEN VectorsOf(p) = {} /\ r.summary = "" /\ r.key_terms = <<>>
                  ELSE VectorsOf(p) # {} /\ r.summary # ""

FinalTexts(content) ==
    LET combined_content == _combine_page_content(content)
    IN  {PickText(r, combined_content) : r \in RewriteResults(combined_content)}

\* C10 amended: the page text is the rewrite when that is non-blank and
\* the combined extracted content otherwise; no embed, upsert or summary
\* step runs on a blank text; a ready record with blank text has no
\* vectors, an empty summary and no key terms, one with non-blank text has
\* vectors; and after a call in which nothing failed every page has such a
\* ready record and the document is completed
C10_BlankTextPageEmpty ==
    /\ \A p \in PageNos :
          task[p].pc \in {"embed", "upsert", "summary"} => NonBlank(task[p].text)
    /\ \A r \in pages_db :
          r.ready =>
            /\ r.text \in FinalTexts(pdf_pages[r.page_no + 1])
            /\ IF NonBlank(r.text)
               THEN VectorsOf(r.page_no) # {}
               ELSE VectorsOf(r.page_no) = {} /\ r.summary = "" /\ r.key_terms = <<>>
    /\ (main = "returned" /\ faults = {}) =>
          /\ Completed
          /\ \A p \in RunPages : HasRecord(p) /\ \A r \in RecordsOf(p) : r.ready

\* C10 witness: a call in which nothing failed returned, one page ended
\* with blank text and one with text
C10_Witness ==
    /\ main = "returned" /\ faults = {}
    /\ \E r \in pages_db : r.ready /\ ~NonBlank(r.text)
    /\ \E r \in pages_db : r.ready /\ NonBlank(r.text) /\ r.summary # ""

\* ============================================================= retrieval
\* src/backend/app/utils/retrieval.py and VectorDBClient.search

\* dict.get(key) is not None
HasKey(d, key) == key \in DOMAIN d

Min(a, b) == IF a <= b THEN a ELSE b

\* list[:n] for n >= 0
Truncate(list, n) == SubSeq(list, 1, Min(n, Len(list)))

\* chunk['text'][:200]
ExcerptLen == 200

SeqsUpTo(S, n) == UNION {[1 .. k -> S] : k \in 0 .. n}

OtherDocId == <<"d", "o", "c", "_", "2">>

\* <<doc_id, page_no>> of the stored chunks
StoredKinds == {<<DocId, 0>>, <<DocId, 1>>, <<OtherDocId, 0>>}

QueryPages == {0, 1}

\* A text is told by what it says (of) and its length in characters (len);
\* text[:n] says the same and is no longer than n.
Prefix(text, n) == [text EXCEPT !.len = Min(n, text.len)]

\* the text Chroma stores with the chunk <<doc_id, page_no, chunk_index>>;
\* chunk 1 of every page is longer than an excerpt, the others shorter
StoredText(doc_id, page_no, chunk_index) ==
    [of |-> <<doc_id, page_no, chunk_index>>,
     len |-> IF chunk_index = 1 THEN ExcerptLen + 50 ELSE ExcerptLen - 50]

\* The collection as the query sees it: the i-th nearest record has distance
\* i.  kinds[i] is the <<doc_id, page_no>> of the i-th nearest record; its
\* chunk_index counts the nearer records of the same page, so ids are unique.
Collection(kinds) ==
    [i \in DOMAIN kinds |->
        LET chunk_index == Cardinality({j \in 1 .. (i - 1) : kinds[j] = kinds[i]})
        IN  [id |-> PointId([doc_id |-> kinds[i][1], page_no |-> kinds[i][2],
                             chunk_index |-> chunk_index]),
             doc_id |-> kinds[i][1],
             page_no |-> kinds[i][2],
             chunk_index |-> chunk_index,
             document |-> StoredText(kinds[i][1], kinds[i][2], chunk_index),
             distance |-> i]]

Collections == {Collection(kinds) : kinds \in SeqsUpTo(StoredKinds, MaxStored)}

\* where={"$and": [{key: {"$eq": value}} ...]} (one condition: no "$and")
Matches(record, filter_conditions) ==
    \A key \in DOMAIN filter_conditions : record[key] = filter_conditions[key]

\* VectorDBClient.search: the limit nearest records that match the filter,
\* nearest first, formatted; [] when the store raises
search(collection, limit, filter_conditions, ok) ==
    LET hits == SelectSeq(collection, LAMBDA r : Matches(r, filter_conditions))
    IN  IF ~ok THEN <<>>
        ELSE [i \in 1 .. Min(limit, Len(hits)) |->
                LET r == hits[i]
                IN  [id |-> r.id, score |-> 1 - r.distance, doc_id |-> r.doc_id,
                     page_no |-> r.page_no, chunk_index |-> r.chunk_index,
                     text |-> r.document]]

\* the three values of ScopeMode
ScopeModes == {"page", "near", "deck"}

_get_page_filter_near_is_deck(doc_id, page_no, scope_mode) ==
    IF scope_mode = "page"
    THEN [doc_id |-> doc_id, page_no |-> page_no]
    ELSE [doc_id |-> doc_id]

_get_page_filter(doc_id, page_no, scope_mode) ==
    IF scope_mode \in {"page", "near"}
    THEN [doc_id |-> doc_id, page_no |-> page_no]
    ELSE [doc_id |-> doc_id]

\* one entry of the log of queries sent to the vector store
Searched(limit, filter_conditions, results) ==
    [limit |-> limit, filter_conditions |-> filter_conditions,
     returned |-> Len(results)]

\* the result of the fallback query, filtered by page_no when it is not empty
ManualFilter(results, page_no) ==
    SelectSeq(results, LAMBDA r : r.page_no = page_no)

_vector_search_unfiltered(collection, filter_conditions, top_k, ok) ==
    LET results == search(collection, top_k, filter_conditions, ok[1])
        fallback_filter == [doc_id |-> filter_conditions.doc_id]
        fallback == search(collection, top_k * 2, fallback_filter, ok[2])
    IN  IF results = <<>> /\ HasKey(filter_conditions, "page_no")
        THEN [results |-> fallback,
              searches |-> <<Searched(top_k, filter_conditions, results),
                             Searched(top_k * 2, fallback_filter, fallback)>>]
        ELSE [results |-> results,
              searches |-> <<Searched(top_k, filter_conditions, results)>>]

_vector_search_same_limit(collection, filter_conditions, top_k, ok) ==
    LET results == search(collection, top_k, filter_conditions, ok[1])
        fallback_filter == [doc_id |-> filter_conditions.doc_id]
        fallback == search(collection, top_k, fallback_filter, ok[2])
    IN  IF results = <<>> /\ HasKey(filter_conditions, "page_no")
        THEN [results |-> ManualFilter(fallback, filter_conditions.page_no),
              searches |-> <<Searched(top_k, filter_conditions, results),
                             Searched(top_k, fallback_filter, fallback)>>]
        ELSE [results |-> results,
              searches |-> <<Searched(top_k, filter_conditions, results)>>]

\* RetrievalEngine._vector_search; ok[k] tells whether the store answers the
\* k-th query.  Returns the results and the queries it sent.
_vector_search(collection, filter_conditions, top_k, ok) ==
    LET results == search(collection, top_k, filter_conditions, ok[1])
        fallback_filter == [doc_id |-> filter_conditions.doc_id]
        fallback == search(collection, top_k * 2, fallback_filter, ok[2])
    IN  IF results = <<>> /\ HasKey(filter_conditions, "page_no")
        THEN [results |-> ManualFilter(fallback, filter_conditions.page_no),
              searches |-> <<Searched(top_k, filter_conditions, results),
                             Searched(top_k * 2, fallback_filter, fallback)>>]
        ELSE [results |-> results,
              searches |-> <<Searched(top_k, filter_conditions, results)>>]

retrieve_untruncated(collection, doc_id, page_no, scope_mode, top_k, ok) ==
    LET page_filter == _get_page_filter(doc_id, page_no, scope_mode)
        found == _vector_search(collection, page_filter, top_k * 2, ok)
    IN  [final_results |-> found.results, searches |-> found.searches]

\* RetrievalEngine.retrieve after the query was embedded
retrieve(collection, doc_id, page_no, scope_mode, top_k, ok) ==
    LET page_filter == _get_page_filter(doc_id, page_no, scope_mode)
        found == _vector_search(collection, page_filter, top_k * 2, ok)
    IN  [final_results |-> Truncate(found.results, top_k),
         searches |-> found.searches]

Queries ==
    [doc_id : {DocId}, page_no : QueryPages, scope_mode : ScopeModes,
     top_k : 1 .. MaxTopK]

\* embed: whether the embedding call answers; search[k]: whether the vector
\* store answers the k-th query.  A retrieve whose embedding fails sends no query.
Outcomes ==
    {[embed |-> FALSE, search |-> <<TRUE, TRUE>>]}
    \cup [embed : {TRUE}, search : BOOLEAN \X BOOLEAN]

\* retrieve, lines 57-82: the query is embedded, the store searched
Retrieve ==
    /\ retrieval.pc = "idle"
    /\ outcomes.embed
    /\ LET r == retrieve(ranked, query.doc_id, query.page_no, query.scope_mode,
                         query.top_k, outcomes.search)
       IN  retrieval' = [pc |-> "returned", searches |-> r.searches,
                         final_results |-> r.final_results]
    /\ UNCHANGED <<ingestion_vars, part_vars, ranked, query, outcomes, response_text, qa_chunks,
                   citations, config, request, stream, qa_db>>

\* retrieve, line 57: embedding_client.embed raises, retrieve raises
RetrieveRaise ==
    /\ retrieval.pc = "idle"
    /\ ~outcomes.embed
    /\ retrieval' = [NoRetrieval EXCEPT !.pc = "raised"]
    /\ UNCHANGED <<ingestion_vars, part_vars, ranked, query, outcomes, response_text, qa_chunks,
                   citations, config, request, stream, qa_db>>

InitRetrieve ==
    /\ IngestionIdle
    /\ documents_db = NoDoc
    /\ ranked \in Collections
    /\ query \in Queries
    /\ outcomes \in Outcomes
    /\ retrieval = NoRetrieval
    /\ CitationsIdle
    /\ StreamIdle
    /\ PartsIdle

NextRetrieve == Retrieve \/ RetrieveRaise

\* one call of retrieve on every stored collection, query and outcome
SpecRetrieve == InitRetrieve /\ [][NextRetrieve]_vars

Returned == retrieval.pc = "returned"

PageScoped == query.scope_mode \in {"page", "near"}

\* the stored chunks of the requested document on the requested page
OnPage == {i \in DOMAIN ranked : /\ ranked[i].doc_id = query.doc_id
                                 /\ ranked[i].page_no = query.page_no}

\* C11: the first query carries {doc_id, page_no} for scope page and near and
\* {doc_id} for scope deck, and a retrieve with scope near returns exactly
\* what the retrieve with scope page returns on the same inputs
C11_NearIsPage ==
    Returned =>
        /\ retrieval.searches[1].filter_conditions =
             IF query.scope_mode = "deck"
             THEN [doc_id |-> query.doc_id]
             ELSE [doc_id |-> query.doc_id, page_no |-> query.page_no]
        /\ query.scope_mode = "near" =>
             retrieval.final_results =
                retrieve(ranked, query.doc_id, query.page_no, "page",
                         query.top_k, outcomes.search).final_results

C11_Witness ==
    /\ Returned
    /\ query.scope_mode = "near"
    /\ retrieval.final_results # <<>>
    /\ \E i \in DOMAIN ranked : /\ ranked[i].doc_id = query.doc_id
                                /\ ranked[i].page_no # query.page_no

\* C12: with scope page or near every returned chunk is of the requested
\* document and page, also after the fallback query; when the document has
\* chunks on other pages only the result is empty; page 0 included
C12_OnlyRequestedPage ==
    (Returned /\ PageScoped) =>
        /\ \A i \in DOMAIN retrieval.final_results :
              /\ retrieval.final_results[i].doc_id = query.doc_id
              /\ retrieval.final_results[i].page_no = query.page_no
        /\ OnPage = {} => retrieval.final_results = <<>>

\* the fallback query returned chunks of other pages of the document, for
\* page 0, and none of them was returned
C12_Witness ==
    /\ Returned
    /\ query.scope_mode = "page"
    /\ query.page_no = 0
    /\ Len(retrieval.searches) = 2
    /\ retrieval.searches[2].returned > 0
    /\ retrieval.final_results = <<>>

\* C13 as claimed: the first query asks for 2*top_k under the scope filter;
\* a second query is sent only after an empty first result under a filter
\* with a page condition, at most once, by document id only, asking for
\* 2*top_k; scope deck sends no second query
C13_FallbackTwiceTopK ==
    Returned =>
        /\ Len(retrieval.searches) \in {1, 2}
        /\ retrieval.searches[1].limit = 2 * query.top_k
        /\ retrieval.searches[1].filter_conditions =
             _get_page_filter(query.doc_id, query.page_no, query.scope_mode)
        /\ Len(retrieval.searches) = 2 =>
             /\ retrieval.searches[1].returned = 0
             /\ HasKey(retrieval.searches[1].filter_conditions, "page_no")
             /\ retrieval.searches[2].filter_conditions = [doc_id |-> query.doc_id]
             /\ retrieval.searches[2].limit = 2 * query.top_k
        /\ query.scope_mode = "deck" => Len(retrieval.searches) = 1

\* C13, amended: as claimed, but the second query asks for 4*top_k
C13_FallbackFourTimesTopK ==
    Returned =>
        /\ Len(retrieval.searches) \in {1, 2}
        /\ retrieval.searches[1].limit = 2 * query.top_k
        /\ retrieval.searches[1].filter_conditions =
             _get_page_filter(query.doc_id, query.page_no, query.scope_mode)
        /\ Len(retrieval.searches) = 2 =>
             /\ retrieval.searches[1].returned = 0
             /\ HasKey(retrieval.searches[1].filter_conditions, "page_no")
             /\ retrieval.searches[2].filter_conditions = [doc_id |-> query.doc_id]
             /\ retrieval.searches[2].limit = 4 * query.top_k
        /\ query.scope_mode = "deck" => Len(retrieval.searches) = 1

C13_Witness ==
    /\ Returned
    /\ Len(retrieval.searches) = 2
    /\ retrieval.searches[2].returned > 2 * query.top_k

\* the candidates of the call: what _vector_search hands to retrieve
Candidates ==
    _vector_search(ranked,
                   _get_page_filter(query.doc_id, query.page_no, query.scope_mode),
                   2 * query.top_k, outcomes.search).results

\* C14: retrieve returns at most top_k chunks, the first top_k candidates
\* left after fallback and manual filtering, by descending similarity
C14_FirstTopKInRankingOrder ==
    Returned =>
        /\ Len(retrieval.final_results) <= query.top_k
        /\ retrieval.final_results = Truncate(Candidates, query.top_k)
        /\ \A i, j \in DOMAIN retrieval.final_results :
              i < j => retrieval.final_results[i].score > retrieval.final_results[j].score

\* more candidates than top_k, after a fallback that filtered some away
C14_Witness ==
    /\ Returned
    /\ Len(Candidates) > query.top_k
    /\ Len(retrieval.final_results) = query.top_k
    /\ Len(retrieval.searches) = 2
    /\ retrieval.searches[2].returned > Len(Candidates)

\* the last query retrieve sent was not answered by the vector store
LastSearchFailed == ~outcomes.search[Len(retrieval.searches)]

\* C15: when the vector store fails, retrieve does not return the empty list
\* that a search without matches returns
C15_FailureIsNotEmptyResult ==
    (Returned /\ LastSearchFailed) => retrieval.final_results # <<>>

\* ============================================================= citations
\* RetrievalEngine.extract_citations.  The answer is a sequence of tokens; a
\* token is a piece of text of one of these forms, P and C standing for the
\* digit strings in its page and chunk fields.
LongForms == {"[page:P, chunk:C]", "[PAGE:P,CHUNK:C]"}

ShortForms == {"[pP:cC]", "[PP:CC]"}

\* texts that neither pattern matches: no colon after page, no brackets
OtherForms == {"[page P, chunk C]"}

\* the digit strings of <<page, chunk>> in the markers of the answers
MarkerDigits == {<<<<0>>, <<0>>>>, <<<<1>>, <<1>>>>, <<<<0, 1>>, <<1>>>>}

Tokens ==
    {[form |-> f, page |-> d[1], chunk |-> d[2]] :
        f \in LongForms \cup ShortForms, d \in MarkerDigits}
    \cup {[form |-> f, page |-> <<0>>, chunk |-> <<0>>] : f \in OtherForms}

\* int(match.group(k)) of a string of decimal digits
RECURSIVE int(_)
int(digits) ==
    IF digits = <<>> THEN 0
    ELSE 10 * int(SubSeq(digits, 1, Len(digits) - 1)) + digits[Len(digits)]

\* re.finditer(pattern, response_text, re.IGNORECASE): the markers of the
\* pattern's forms, lower case or upper case, in the order of the text
finditer(pattern, text) == SelectSeq(text, LAMBDA t : t.form \in pattern)

\* lines 248-267: the loop over the matches of one pattern; state is the
\* record of the citations and the seen_citations so far
RECURSIVE CiteUndeduplicated(_, _, _)
CiteUndeduplicated(matches, supplied, state) ==
    IF matches = <<>> THEN state
    ELSE LET match == Head(matches)
             page_no == int(match.page)
             chunk_index == int(match.chunk)
             found == SelectSeq(supplied, LAMBDA c : /\ c.page_no = page_no
                                                     /\ c.chunk_index = chunk_index)
             cited == IF found = <<>> THEN state.citations
                      ELSE Append(state.citations,
                                  [page_no |-> page_no, chunk_index |-> chunk_index,
                                   chunk_id |-> found[1].id,
                                   text |-> Prefix(found[1].text, ExcerptLen)])
         IN  CiteUndeduplicated(Tail(matches), supplied,
                                [citations |-> cited, seen_citations |-> {}])

RECURSIVE Cite(_, _, _)
Cite(matches, supplied, state) ==
    IF matches = <<>> THEN state
    ELSE LET match == Head(matches)
             page_no == int(match.page)
             chunk_index == int(match.chunk)
             citation_key == <<page_no, chunk_index>>
             found == SelectSeq(supplied, LAMBDA c : /\ c.page_no = page_no
                                                     /\ c.chunk_index = chunk_index)
             cited == IF found = <<>> THEN state.citations
                      ELSE Append(state.citations,
                                  [page_no |-> page_no, chunk_index |-> chunk_index,
                                   chunk_id |-> found[1].id,
                                   text |-> Prefix(found[1].text, ExcerptLen)])
         IN  IF citation_key \in state.seen_citations
             THEN Cite(Tail(matches), supplied, state)
             ELSE Cite(Tail(matches), supplied,
                       [citations |-> cited,
                        seen_citations |-> state.seen_citations \cup {citation_key}])

\* for pattern in patterns: the first pattern's matches, then the second's
extract_citations(text, supplied) ==
    Cite(finditer(ShortForms, text), supplied,
         Cite(finditer(LongForms, text), supplied,
              [citations |-> <<>>, seen_citations |-> {}])).citations

\* the chunk lists handed to extract_citations: what a search of the whole
\* document returns on these collections
SuppliedKinds ==
    {<<>>, <<<<DocId, 0>>>>, <<<<DocId, 1>>, <<DocId, 1>>>>,
     <<<<DocId, 1>>, <<DocId, 0>>, <<DocId, 1>>>>}

Supplied ==
    {search(Collection(kinds), MaxStored, [doc_id |-> DocId], TRUE) :
        kinds \in SuppliedKinds}

ExtractCitations ==
    /\ ~citations.extracted
    /\ citations' = [extracted |-> TRUE,
                     list |-> extract_citations(response_text, qa_chunks)]
    /\ UNCHANGED <<ingestion_vars, part_vars, ranked, query, outcomes, retrieval,
                   response_text, qa_chunks, config, request, stream, qa_db>>

InitCitations ==
    /\ IngestionIdle
    /\ documents_db = NoDoc
    /\ RetrievalIdle
    /\ response_text \in SeqsUpTo(Tokens, MaxTokens)
    /\ qa_chunks \in Supplied
    /\ citations = NoCitations
    /\ StreamIdle
    /\ PartsIdle

\* extract_citations applied to every answer and chunk list
SpecCitations == InitCitations /\ [][ExtractCitations]_vars

IsMarker(t) == t.form \in LongForms \cup ShortForms

KeyOf(t) == <<int(t.page), int(t.chunk)>>

\* the positions of the markers of the answer that refer to <<page, chunk>>
MarkersOf(key) ==
    {i \in DOMAIN response_text :
        IsMarker(response_text[i]) /\ KeyOf(response_text[i]) = key}

CitationKey(c) == <<c.page_no, c.chunk_index>>

\* C16: one citation at most per (page, chunk) whatever the number and the
\* syntax of its markers; a marker without a supplied chunk gives no
\* citation; a citation carries the id and the first 200 characters of a
\* supplied chunk of its page and chunk index
C16_OneCitationPerPair ==
    citations.extracted =>
        /\ \A i, j \in DOMAIN citations.list :
              CitationKey(citations.list[i]) = CitationKey(citations.list[j]) => i = j
        /\ \A i \in DOMAIN citations.list :
              /\ MarkersOf(CitationKey(citations.list[i])) # {}
              /\ \E k \in DOMAIN qa_chunks :
                    /\ qa_chunks[k].page_no = citations.list[i].page_no
                    /\ qa_chunks[k].chunk_index = citations.list[i].chunk_index
                    /\ qa_chunks[k].id = citations.list[i].chunk_id
                    /\ citations.list[i].text.of = qa_chunks[k].text.of
                    /\ citations.list[i].text.len = Min(ExcerptLen, qa_chunks[k].text.len)
        /\ \A i \in DOMAIN response_text :
              (/\ IsMarker(response_text[i])
               /\ \E k \in DOMAIN qa_chunks :
                     <<qa_chunks[k].page_no, qa_chunks[k].chunk_index>> = KeyOf(response_text[i]))
              => \E c \in DOMAIN citations.list :
                     CitationKey(citations.list[c]) = KeyOf(response_text[i])

\* a pair marked in both syntaxes with differently written numbers, a long
\* chunk text, and a marker without a supplied chunk
C16_Witness ==
    /\ citations.extracted
    /\ Len(citations.list) = 1
    /\ citations.list[1].text.len = ExcerptLen
    /\ \E i, j \in MarkersOf(<<1, 1>>) :
          /\ response_text[i].form \in LongForms
          /\ response_text[j].form \in ShortForms
          /\ response_text[i].page # response_text[j].page
    /\ MarkersOf(<<0, 0>>) # {}

FirstSeen(key) == CHOOSE i \in MarkersOf(key) : \A j \in MarkersOf(key) : i <= j

\* C17: the citations are in the order in which their pairs first occur in
\* the answer, whatever the syntax of the markers
C17_FirstSeenOrder ==
    citations.extracted =>
        \A i, j \in DOMAIN citations.list :
            i < j => FirstSeen(CitationKey(citations.list[i]))
                        < FirstSeen(CitationKey(citations.list[j]))

\* ============================================================ Q&A stream
\* generate_answer of ask_question_stream, src/backend/app/api/qa.py

\* get_chat_client: "" when the provider is configured, else the message of
\* the ProviderNotAvailableError (gemini and claude are like gpt, each with
\* its own key)
get_chat_client(provider) ==
    CASE provider = "gpt" ->
            IF config.openai_api_key THEN "" ELSE "OpenAI API key not configured"
      [] provider = "ollama" ->
            IF config.allow_local_ollama THEN ""
            ELSE "Ollama is disabled by configuration"
      [] OTHER -> "Unknown provider"

\* get_embedding_client, likewise
get_embedding_client(provider) ==
    CASE provider = "openai_small" ->
            IF config.openai_api_key THEN "" ELSE "OpenAI API key not configured"
      [] provider = "ollama_nomic" ->
            IF config.allow_local_ollama THEN ""
            ELSE "Ollama is disabled by configuration"
      [] OTHER -> "Unknown embedding provider"

\* top_k of retrieve_for_question
DefaultTopK == 6

Configs == [openai_api_key : BOOLEAN, allow_local_ollama : BOOLEAN]

\* page_no is the page of the request's path
Requests ==
    [page_no : {0}, scope_mode : {"page", "deck", "slide"},
     llm_provider : {"gpt", "ollama", "palm"},
     embedding_provider : {"openai_small", "ollama_nomic"}]

\* nothing stored; chunks of another page only; chunks of the page
StreamCollections ==
    {Collection(<<>>), Collection(<<<<DocId, 1>>>>),
     Collection(<<<<DocId, 0>>, <<DocId, 1>>, <<DocId, 0>>>>)}

\* what the LLM streams when it does not fail
Answers ==
    {<<>>,
     <<[form |-> "[page:P, chunk:C]", page |-> <<0>>, chunk |-> <<0>>]>>,
     <<[form |-> "[pP:cC]", page |-> <<0>>, chunk |-> <<1>>],
       [form |-> "[page P, chunk C]", page |-> <<0>>, chunk |-> <<0>>],
       [form |-> "[PAGE:P,CHUNK:C]", page |-> <<0>>, chunk |-> <<0>>]>>}

\* yield format_sse_message({"type": "error", "message": message}), the last
\* statement of the generator on each path that reaches it
Fail(message) ==
    [stream EXCEPT !.pc = "end",
                   !.events = Append(@, [type |-> "error", message |-> message])]

\* the first error of retrieve_for_question, "" when it returns: the locked
\* provider's client, ScopeMode(scope_mode.lower()), the query's embedding
RetrieveError ==
    IF get_embedding_client("openai_small") # ""
    THEN get_embedding_client("openai_small")
    ELSE IF request.scope_mode \notin ScopeModes THEN "not a valid ScopeMode"
    ELSE IF ~outcomes.embed THEN "embedding failed"
    ELSE ""

\* lines 72-78 and the test of line 80
RetrieveForQuestion ==
    /\ stream.pc = "start"
    /\ RetrieveError = ""
    /\ qa_chunks' = retrieve(ranked, DocId, request.page_no, request.scope_mode,
                          DefaultTopK, outcomes.search).final_results
    /\ stream' = [stream EXCEPT !.pc = IF qa_chunks' = <<>> THEN "no_chunks" ELSE "llm"]
    /\ UNCHANGED <<ingestion_vars, part_vars, ranked, query, outcomes, retrieval,
                   response_text, citations, config, request, qa_db>>

\* lines 72-78 raise, lines 161-166
RetrieveForQuestionFail ==
    /\ stream.pc = "start"
    /\ RetrieveError # ""
    /\ stream' = Fail(RetrieveError)
    /\ UNCHANGED <<ingestion_vars, part_vars, ranked, query, outcomes, retrieval,
                   response_text, qa_chunks, citations, config, request, qa_db>>

\* lines 82-110: the message of the empty retrieval
NoChunksMessage(embed_ok, search_ok) ==
    IF documents_db = NoDoc \/ ~documents_db.ingestion_completed
    THEN "Document ingestion is not complete"
    ELSE IF get_embedding_client("openai_small") # "" \/ ~embed_ok
    THEN "No relevant content found to answer your question"
    ELSE IF search(ranked, 1, [doc_id |-> DocId], search_ok) = <<>>
    THEN "No content chunks found for this document"
    ELSE "No relevant content found on page"

NoChunks_continues(embed_ok, search_ok) ==
    /\ stream.pc = "no_chunks"
    /\ stream' = [stream EXCEPT
                    !.pc = "llm",
                    !.events = Append(@, [type |-> "error",
                                          message |-> NoChunksMessage(embed_ok, search_ok)])]
    /\ UNCHANGED <<ingestion_vars, part_vars, ranked, query, outcomes, retrieval,
                   response_text, qa_chunks, citations, config, request, qa_db>>

\* lines 80-116: the error event of the empty retrieval, then return
NoChunks(embed_ok, search_ok) ==
    /\ stream.pc = "no_chunks"
    /\ stream' = Fail(NoChunksMessage(embed_ok, search_ok))
    /\ UNCHANGED <<ingestion_vars, part_vars, ranked, query, outcomes, retrieval,
                   response_text, qa_chunks, citations, config, request, qa_db>>

\* lines 119-122
GetChatClient ==
    /\ stream.pc = "llm"
    /\ get_chat_client(request.llm_provider) = ""
    /\ stream' = [stream EXCEPT !.pc = "streaming"]
    /\ UNCHANGED <<ingestion_vars, part_vars, ranked, query, outcomes, retrieval,
                   response_text, qa_chunks, citations, config, request, qa_db>>

\* lines 119-122 raise, lines 161-166
GetChatClientFail ==
    /\ stream.pc = "llm"
    /\ get_chat_client(request.llm_provider) # ""
    /\ stream' = Fail(get_chat_client(request.llm_provider))
    /\ UNCHANGED <<ingestion_vars, part_vars, ranked, query, outcomes, retrieval,
                   response_text, qa_chunks, citations, config, request, qa_db>>

Streamed == Len(stream.full_answer)

\* lines 126-131: one token of the answer
StreamToken ==
    /\ stream.pc = "streaming"
    /\ Streamed < Len(response_text)
    /\ LET token == response_text[Streamed + 1]
       IN  stream' = [stream EXCEPT
                        !.full_answer = Append(@, token),
                        !.events = Append(@, [type |-> "token", token |-> token])]
    /\ UNCHANGED <<ingestion_vars, part_vars, ranked, query, outcomes, retrieval,
                   response_text, qa_chunks, citations, config, request, qa_db>>

\* line 126: stream_chat raises a StreamingError, lines 161-166
StreamFail ==
    /\ stream.pc = "streaming"
    /\ stream' = Fail("streaming failed")
    /\ UNCHANGED <<ingestion_vars, part_vars, ranked, query, outcomes, retrieval,
                   response_text, qa_chunks, citations, config, request, qa_db>>

\* line 134: RetrievalEngine(request.embedding_provider) raises, lines 161-166
CitationEngineFail ==
    /\ stream.pc = "streaming"
    /\ Streamed = Len(response_text)
    /\ get_embedding_client(request.embedding_provider) # ""
    /\ stream' = Fail(get_embedding_client(request.embedding_provider))
    /\ UNCHANGED <<ingestion_vars, part_vars, ranked, query, outcomes, retrieval,
                   response_text, qa_chunks, citations, config, request, qa_db>>

\* line 152: save_doc raises, lines 161-166
SaveQaFail ==
    /\ stream.pc = "streaming"
    /\ Streamed = Len(response_text)
    /\ get_embedding_client(request.embedding_provider) = ""
    /\ stream' = Fail("save failed")
    /\ UNCHANGED <<ingestion_vars, part_vars, ranked, query, outcomes, retrieval,
                   response_text, qa_chunks, citations, config, request, qa_db>>

\* the id CouchDB gives the next record of the database
NewId(db) == <<"qa", Cardinality(db) + 1>>

\* lines 138-150
qa_doc(id) ==
    [id |-> id, type |-> "qa", document_id |-> DocId,
     page_no |-> request.page_no, answer |-> stream.full_answer,
     scope_mode |-> request.scope_mode,
     citations |-> extract_citations(stream.full_answer, qa_chunks),
     llm_provider |-> request.llm_provider,
     embedding_provider |-> request.embedding_provider]

DoneEvent(doc) == [type |-> "done", qa_id |-> doc.id, citations |-> doc.citations]

SaveQa_unsaved ==
    /\ stream.pc = "streaming"
    /\ Streamed = Len(response_text)
    /\ get_embedding_client(request.embedding_provider) = ""
    /\ stream' = [stream EXCEPT
                    !.pc = "end",
                    !.events = Append(@, DoneEvent(qa_doc(NewId(qa_db))))]
    /\ UNCHANGED <<ingestion_vars, part_vars, ranked, query, outcomes, retrieval,
                   response_text, qa_chunks, citations, config, request, qa_db>>

\* lines 134-159: citations, the record saved, the done event
SaveQa ==
    /\ stream.pc = "streaming"
    /\ Streamed = Len(response_text)
    /\ get_embedding_client(request.embedding_provider) = ""
    /\ qa_db' = save_doc(qa_db, qa_doc(NewId(qa_db)))
    /\ stream' = [stream EXCEPT
                    !.pc = "end",
                    !.events = Append(@, DoneEvent(qa_doc(NewId(qa_db))))]
    /\ UNCHANGED <<ingestion_vars, part_vars, ranked, query, outcomes, retrieval,
                   response_text, qa_chunks, citations, config, request>>

InitStream ==
    /\ IngestionIdle
    /\ documents_db \in {UploadedDoc, update_doc(UploadedDoc, CompletedUpdates(1))}
    /\ ranked \in StreamCollections
    /\ query = NoQuery
    /\ outcomes \in Outcomes
    /\ retrieval = NoRetrieval
    /\ response_text \in Answers
    /\ qa_chunks = <<>>
    /\ citations = NoCitations
    /\ config \in Configs
    /\ request \in Requests
    /\ stream = [NoStream EXCEPT !.pc = "start"]
    /\ qa_db = {}
    /\ PartsIdle

NextStream ==
    \/ RetrieveForQuestion
    \/ RetrieveForQuestionFail
    \/ \E embed_ok, search_ok \in BOOLEAN : NoChunks(embed_ok, search_ok)
    \/ GetChatClient
    \/ GetChatClientFail
    \/ StreamToken
    \/ StreamFail
    \/ CitationEngineFail
    \/ SaveQaFail
    \/ SaveQa

\* one answer stream per request, configuration, collection and answer
SpecStream == InitStream /\ [][NextStream]_vars

Ended == stream.pc = "end"

Terminals == {i \in DOMAIN stream.events : stream.events[i].type \in {"error", "done"}}

TokenEvents == {i \in DOMAIN stream.events : stream.events[i].type = "token"}

LastEvent == stream.events[Len(stream.events)]

\* C18: a stream emits its one terminal event (error or done) as its last
\* event and when it ends, whatever the path; token events come before it
C18_OneTerminalEvent ==
    /\ Terminals \subseteq {Len(stream.events)}
    /\ Ended <=> Terminals # {}
    /\ \A i \in DOMAIN stream.events : i \notin Terminals => i \in TokenEvents

\* a stream that failed while it persisted the record, after some tokens
C18_Witness ==
    /\ Ended
    /\ TokenEvents # {}
    /\ LastEvent.type = "error"
    /\ LastEvent.message = "save failed"

\* C19: at most one Q&A record per stream; a done event carries the id of
\* the saved record and the citations of the answer; a stream that ended
\* with an error event saved no record
C19_SavedOnceOnSuccess ==
    /\ Cardinality(qa_db) <= 1
    /\ qa_db # {} => Ended /\ LastEvent.type = "done"
    /\ \A i \in DOMAIN stream.events :
          stream.events[i].type = "done" =>
             /\ \E r \in qa_db : /\ r.id = stream.events[i].qa_id
                                 /\ r.citations = stream.events[i].citations
                                 /\ r.answer = stream.full_answer
             /\ stream.events[i].citations =
                   extract_citations(stream.full_answer, qa_chunks)

\* a done event with a citation
C19_Witness ==
    /\ Ended
    /\ LastEvent.type = "done"
    /\ LastEvent.citations # <<>>
    /\ qa_db # {}

\* C20: when the requested LLM provider or the requested embedding provider
\* is not configured, the stream ends with an error event and no token event
C20_ProviderErrorBeforeTokens ==
    (/\ Ended
     /\ \/ get_chat_client(request.llm_provider) # ""
        \/ get_embedding_client(request.embedding_provider) # "")
    => (LastEvent.type = "error" /\ TokenEvents = {})

\* the retrieval of the stream returned and found no chunk
RetrievedNothing == RetrieveError = "" /\ qa_chunks = <<>>

\* C21: a stream whose retrieval found no chunk emits no token and ends
\* with one message: ingestion incomplete iff ingestion_completed is not
\* true; else no chunks indexed iff the collection holds no chunk of the
\* document; else no relevant chunks on this page
C21_EmptyRetrievalMessage ==
    (Ended /\ RetrievedNothing) =>
        /\ TokenEvents = {}
        /\ Len(stream.events) = 1
        /\ LastEvent.type = "error"
        /\ LastEvent.message =
             IF documents_db = NoDoc \/ ~documents_db.ingestion_completed
             THEN "Document ingestion is not complete"
             ELSE IF \A i \in DOMAIN ranked : ranked[i].doc_id # DocId
             THEN "No content chunks found for this document"
             ELSE "No relevant content found on page"

\* ============================================================ summarizer
\* _generate_summary_and_terms, src/backend/app/workers/ingestion.py (the
\* copy in utils/fix_summaries.py parses alike).  A response is a sequence
\* of pieces of text: the delimiters, code fences, blanks, words and pieces
\* of JSON below.
SummaryStart == "===SUMMARY_START==="
SummaryEnd == "===SUMMARY_END==="
KeyTermsStart == "===KEY_TERMS_START==="
KeyTermsEnd == "===KEY_TERMS_END==="
MaxParts == 2

\* the code fence of three backquotes, written with quotes here
Fence == "'''"
FenceJson == "'''json"
Newline == "\n"
Blanks == {" ", Newline}

\* a whole JSON object, a JSON number, and the two ends of a JSON object
\* whose summary is the text put between them
JsonObject == "{\"summary\": \"s\", \"key_terms\": [\"k\"]}"
JsonNumber == "42"
JsonHead == "{\"key_terms\": [\"k\"], \"summary\": \""
JsonTail == "\"}"

\* the pieces a response is made of, several at a time
Parts ==
    {<<SummaryStart, Newline, "explanation", " ", Newline, SummaryEnd>>,
     <<KeyTermsStart, Newline, " ", "term1", " ", Newline, Newline, "term2",
       KeyTermsEnd>>,
     <<JsonObject>>,
     <<FenceJson, Newline, JsonObject, Newline, Fence>>,
     <<Fence, JsonObject, Fence>>,
     <<JsonHead, "see", " ", Fence, "code", Fence, JsonTail>>,
     <<JsonNumber>>,
     <<"explanation">>, <<Newline>>,
     <<SummaryStart>>, <<SummaryEnd>>, <<KeyTermsEnd>>}

RECURSIVE Flatten(_)
Flatten(parts) ==
    IF parts = <<>> THEN <<>> ELSE Head(parts) \o Flatten(Tail(parts))

Responses == {Flatten(parts) : parts \in SeqsUpTo(Parts, MaxParts)}

\* substring in text, for the substrings that are pieces; the fence is also
\* found inside the json fence
In(piece, text) ==
    \E i \in DOMAIN text :
        \/ text[i] = piece
        \/ piece = Fence /\ text[i] = FenceJson

\* text.find(piece), as an index of the sequence; In(piece, text) holds
Find(piece, text) ==
    CHOOSE i \in DOMAIN text :
        /\ text[i] = piece \/ (piece = Fence /\ text[i] = FenceJson)
        /\ \A j \in 1 .. (i - 1) :
              ~(text[j] = piece \/ (piece = Fence /\ text[j] = FenceJson))

\* text.strip()
RECURSIVE strip(_)
strip(text) ==
    IF text = <<>> THEN <<>>
    ELSE IF Head(text) \in Blanks THEN strip(Tail(text))
    ELSE IF text[Len(text)] \in Blanks THEN strip(SubSeq(text, 1, Len(text) - 1))
    ELSE text

\* text[text.find(start) + len(start) : text.find(end)]; empty when end
\* comes first
Between(text, start, end) ==
    SubSeq(text, Find(start, text) + 1, Find(end, text) - 1)

\* text.split(fence)[1].split(Fence)[0]: from the first fence to the next
\* one, or to the end of the text
Fenced(text, fence) ==
    LET rest == SubSeq(text, Find(fence, text) + 1, Len(text))
    IN  IF In(Fence, rest) THEN SubSeq(rest, 1, Find(Fence, rest) - 1) ELSE rest

\* text.split("\n")
RECURSIVE split(_)
split(text) ==
    IF ~In(Newline, text) THEN <<text>>
    ELSE <<SubSeq(text, 1, Find(Newline, text) - 1)>>
         \o split(SubSeq(text, Find(Newline, text) + 1, Len(text)))

\* [term.strip() for term in ... if term.strip()]
Terms(lines) ==
    LET kept == SelectSeq(lines, LAMBDA term : strip(term) # <<>>)
    IN  [i \in DOMAIN kept |-> strip(kept[i])]

\* the characters a JSON string may hold unescaped: no quote, no newline
InJsonString(piece) ==
    piece \notin {Newline, JsonObject, JsonHead, JsonTail}

\* json.loads(text): a dict, another JSON value, or a JSONDecodeError
json_loads(text) ==
    LET t == strip(text)
    IN  IF t = <<JsonObject>>
        THEN [kind |-> "dict", summary |-> <<"s">>, key_terms |-> << <<"k">> >>]
        ELSE IF /\ Len(t) >= 2
                /\ t[1] = JsonHead
                /\ t[Len(t)] = JsonTail
                /\ \A i \in 2 .. (Len(t) - 1) : InJsonString(t[i])
        THEN [kind |-> "dict", summary |-> SubSeq(t, 2, Len(t) - 1),
              key_terms |-> << <<"k">> >>]
        ELSE IF t = <<JsonNumber>>
        THEN [kind |-> "number", summary |-> <<>>, key_terms |-> <<>>]
        ELSE [kind |-> "JSONDecodeError", summary |-> <<>>, key_terms |-> <<>>]

\* lines 453-473: the summary delimiters, else JSON, else the raw response;
\* raised when result.get fails on a JSON value that is no dict
ParseSummary(full_response) ==
    IF In(SummaryStart, full_response) /\ In(SummaryEnd, full_response)
    THEN [raised |-> FALSE,
          summary |-> strip(Between(full_response, SummaryStart, SummaryEnd)),
          key_terms |-> <<>>]
    ELSE LET json_match ==
                IF In(FenceJson, full_response)
                THEN strip(Fenced(full_response, FenceJson))
                ELSE IF In(Fence, full_response)
                THEN strip(Fenced(full_response, Fence))
                ELSE full_response
             result == json_loads(json_match)
         IN  IF result.kind = "dict"
             THEN [raised |-> FALSE, summary |-> result.summary,
                   key_terms |-> result.key_terms]
             ELSE IF result.kind = "JSONDecodeError"
             THEN [raised |-> FALSE, summary |-> full_response, key_terms |-> <<>>]
             ELSE [raised |-> TRUE, summary |-> <<>>, key_terms |-> <<>>]

\* lines 475-480: the key terms of the delimiters, unless JSON gave some
ParseKeyTerms(full_response, parsed) ==
    IF /\ parsed.key_terms = <<>>
       /\ In(KeyTermsStart, full_response)
       /\ In(KeyTermsEnd, full_response)
    THEN [parsed EXCEPT !.key_terms =
             Terms(split(strip(Between(full_response, KeyTermsStart, KeyTermsEnd))))]
    ELSE parsed

_generate_summary_and_terms_raises(call) ==
    IF ~call.ok THEN [raised |-> TRUE, summary |-> <<>>, key_terms |-> <<>>]
    ELSE LET parsed == ParseSummary(call.full_response)
         IN  IF parsed.raised THEN parsed
             ELSE ParseKeyTerms(call.full_response, parsed)

\* lines 409-487: the try block and its handler; "" is the empty text <<>>
_generate_summary_and_terms(call) ==
    IF ~call.ok THEN [raised |-> FALSE, summary |-> <<>>, key_terms |-> <<>>]
    ELSE LET parsed == ParseSummary(call.full_response)
         IN  IF parsed.raised
             THEN [raised |-> FALSE, summary |-> <<>>, key_terms |-> <<>>]
             ELSE ParseKeyTerms(call.full_response, parsed)


\* what stream_chat may do: raise, or stream one of the responses
LlmCalls ==
    {[ok |-> FALSE, full_response |-> <<>>]}
    \cup {[ok |-> TRUE, full_response |-> r] : r \in Responses}

\* lines 132-135 of process_page with the call of the summarizer; an
\* exception of the summarizer would reach the handler of process_page
SummarizeResponse(p, call) ==
    /\ task[p].pc = "summary"
    /\ call \in LlmCalls
    /\ LET result == _generate_summary_and_terms(call)
       IN  /\ llm_call' = [page |-> p, text |-> task[p].text, ok |-> call.ok,
                           full_response |-> call.full_response,
                           returned |-> ~result.raised,
                           summary |-> result.summary,
                           key_terms |-> result.key_terms]
           /\ IF result.raised
              THEN Raise(p, "Error generating summary", "summary")
              ELSE /\ task' = [task EXCEPT ![p].summary = result.summary,
                                           ![p].key_terms = result.key_terms,
                                           ![p].pc = "save"]
                   /\ UNCHANGED faults
    /\ UNCHANGED <<ingestion_concurrency, file_exists, pdf_pages, ranked, query,
                   outcomes, retrieval, response_text, qa_chunks, citations,
                   config, request, stream, qa_db, vision, chunker, _jobs,
                   background_tasks, tool_vars,
                   documents_db, pages_db, vectors, now, main, main_error,
                   semaphore>>

PageStepSummary(p) ==
    \/ Acquire(p)
    \/ ExtractFail(p)
    \/ \E r \in UNION {RewriteResults(_combine_page_content(c)) : c \in Contents} :
          ExtractPage(p, r)
    \/ Embed(p)
    \/ EmbedFail(p)
    \/ Upsert(p)
    \/ UpsertFail(p)
    \/ \E call \in LlmCalls : SummarizeResponse(p, call)
    \/ SavePage(p)
    \/ \E e \in SaveErrors : SavePageFail(p, e)
    \/ SaveErrorPage(p)
    \/ \E e \in SaveErrors : SaveErrorPageFail(p, e)

\* the ingestion of a one-page document
InitOnePage ==
    /\ ingestion_concurrency = MaxConcurrency
    /\ file_exists \in BOOLEAN
    /\ pdf_pages \in {f \in PdfFiles : Len(f) = 1}
    /\ documents_db \in {NoDoc, UploadedDoc}
    /\ pages_db = {}
    /\ vectors = {}
    /\ now = 0
    /\ main = "idle"
    /\ main_error = ""
    /\ semaphore = 0
    /\ task = [p \in PageNos |-> NoTask]
    /\ faults = {}
    /\ RetrievalIdle
    /\ CitationsIdle
    /\ StreamIdle
    /\ PartsIdle

NextSummary ==
    \/ \E e \in FatalErrors, applied \in BOOLEAN : IngestFatal(e, applied)
    \/ IngestFanOut
    \/ \E applied \in BOOLEAN : GatherReturn(applied)
    \/ \E applied \in BOOLEAN : GatherRaise(applied)
    \/ \E p \in PageNos : PageStepSummary(p)

SpecSummary == InitOnePage /\ [][NextSummary]_vars

\* the summarizer returned for a response of the LLM
Parsed == llm_call.returned /\ llm_call.ok

\* both delimiters of a pair are in the response, the opening one first
Pair(text, start, end) ==
    In(start, text) /\ In(end, text) /\ Find(start, text) < Find(end, text)

NoDelimiters(text) ==
    \A d \in {SummaryStart, SummaryEnd, KeyTermsStart, KeyTermsEnd} : ~In(d, text)

\* the text is a JSON object
IsJsonObject(text) == json_loads(text).kind = "dict"

\* the text inside the code fence, when the response is one fenced block
Unfenced(text) ==
    LET t == strip(text)
    IN  IF Len(t) >= 2 /\ t[1] \in {Fence, FenceJson} /\ t[Len(t)] = Fence
        THEN SubSeq(t, 2, Len(t) - 1) ELSE text

\* C22: a response with both delimiter pairs gives the trimmed text between
\* the summary delimiters and the non-empty trimmed lines between the
\* key-term delimiters; a response without delimiters that is one JSON
\* object, fenced or not, gives the summary and key_terms of the object
C22_DelimitersThenJson ==
    Parsed =>
        LET r == llm_call.full_response
        IN  /\ (Pair(r, SummaryStart, SummaryEnd) /\ Pair(r, KeyTermsStart, KeyTermsEnd))
                => /\ llm_call.summary = strip(Between(r, SummaryStart, SummaryEnd))
                   /\ llm_call.key_terms =
                        Terms(split(Between(r, KeyTermsStart, KeyTermsEnd)))
            /\ (NoDelimiters(r) /\ IsJsonObject(Unfenced(r)))
                => /\ llm_call.summary = json_loads(Unfenced(r)).summary
                   /\ llm_call.key_terms = json_loads(Unfenced(r)).key_terms

\* the response parses as a JSON object, as it is or without its code fence
ParsesAsJsonObject(text) ==
    \/ IsJsonObject(text)
    \/ IsJsonObject(Unfenced(text))
    \/ In(FenceJson, text) /\ IsJsonObject(Fenced(text, FenceJson))
    \/ In(Fence, text) /\ ~In(FenceJson, text) /\ IsJsonObject(Fenced(text, Fence))

BothPairs(text) ==
    \A d \in {SummaryStart, SummaryEnd, KeyTermsStart, KeyTermsEnd} : In(d, text)

\* C23: a response that lacks one of the delimiter pairs and does not parse
\* as a JSON object comes back whole as the summary, with no key term
C23_RawResponseFallback ==
    (Parsed /\ ~BothPairs(llm_call.full_response)
            /\ ~ParsesAsJsonObject(llm_call.full_response))
        => /\ llm_call.summary = llm_call.full_response
           /\ llm_call.key_terms = <<>>

SummaryFaults == {"summary"}

\* the page of the call was saved by process_page, line 150
SavedPage(r) == r.page_no = llm_call.page /\ r.ready

\* C24: the summarizer raises for no response and no failure of the LLM
\* call; a failed call gives an empty summary and no key term, and the page
\* record then saved has the text of the page and ready = true
C24_SummarizerNeverRaises ==
    /\ \A f \in faults : f[1] \notin SummaryFaults
    /\ (task[0].pc \in {"save", "done"} /\ now = 1 /\ llm_call.page = 0)
          => llm_call.returned
    /\ (llm_call.returned /\ ~llm_call.ok)
          => /\ llm_call.summary = <<>>
             /\ llm_call.key_terms = <<>>
             /\ \A r \in pages_db : r.page_no = llm_call.page
                   => /\ SavedPage(r) <=> <<"save", llm_call.page>> \notin faults
                      /\ SavedPage(r) =>
                            /\ r.text = llm_call.text
                            /\ NonBlank(r.text)
                            /\ r.summary = <<>>
                            /\ r.key_terms = <<>>

\* a page whose LLM call failed is stored with its text and ready = true
C24_Witness ==
    /\ llm_call.returned
    /\ ~llm_call.ok
    /\ \E r \in pages_db : SavedPage(r) /\ r.text = llm_call.text

\* ======================================================== vision rewriter
\* _extract_and_rewrite_content, src/backend/app/workers/ingestion.py
VisionProviders == {"gpt", "claude", "gemini"}

\* provider.lower() of the configured summary_llm_provider
Providers == VisionProviders \cup {"ollama"}

\* what the llm_client may have: the attributes client and model, a client
\* that is an AsyncOpenAI, a client with the attribute messages
Clients ==
    {{}, {"client"}, {"client", "AsyncOpenAI"}, {"model"}, {"client", "model"},
     {"client", "model", "messages"}}

\* what the call of the provider may do: raise, answer no content (None),
\* answer a text
VisionCalls ==
    {[outcome |-> "raise", content |-> <<>>],
     [outcome |-> "None", content |-> <<>>]}
    \cup {[outcome |-> "text", content |-> r] : r \in RewriteOutputs}

VisionInputs ==
    [provider : Providers, client : Clients, preview : BOOLEAN, call : VisionCalls]

\* lines 254-385, the body of the try block: the text returned, or raised
RewriteBody(v, extracted_content) ==
    LET as_is == [raised |-> FALSE, text |-> extracted_content]
        error == [raised |-> TRUE, text |-> <<>>]
        \* len(rewritten_text) raises on None
        answer == IF v.call.outcome = "text"
                  THEN [raised |-> FALSE, text |-> Strip(v.call.content)]
                  ELSE error
    IN  IF ~v.preview THEN as_is
        ELSE IF v.provider = "gpt"
        THEN IF {"client", "AsyncOpenAI"} \subseteq v.client THEN answer ELSE as_is
        ELSE IF v.provider = "claude"
        THEN IF {"client", "model"} \subseteq v.client
             THEN IF "messages" \notin v.client THEN error ELSE answer
             ELSE as_is
        ELSE IF v.provider = "gemini"
        THEN IF "model" \in v.client THEN answer ELSE as_is
        ELSE as_is

_extract_and_rewrite_content_raises(v, extracted_content) ==
    RewriteBody(v, extracted_content)

\* lines 252-390: the try block and its handler
_extract_and_rewrite_content(v, extracted_content) ==
    LET body == RewriteBody(v, extracted_content)
    IN  IF body.raised THEN [raised |-> FALSE, text |-> extracted_content]
        ELSE body

\* lines 81-111 of process_page with the call of the rewriter; an exception
\* of the rewriter would reach the handler of process_page
RewritePage(p, v) ==
    /\ task[p].pc = "extract"
    /\ v \in VisionInputs
    /\ LET combined_content == _combine_page_content(pdf_pages[p + 1])
           result == _extract_and_rewrite_content(v, combined_content)
           text == PickText(result.text, combined_content)
       IN  /\ vision' = [returned |-> ~result.raised, page |-> p,
                         provider |-> v.provider, client |-> v.client,
                         preview |-> v.preview, outcome |-> v.call.outcome,
                         extracted_content |-> combined_content,
                         rewritten_text |-> result.text]
           /\ IF result.raised
              THEN Raise(p, "Error rewriting content", "rewrite")
              ELSE /\ task' = [task EXCEPT
                          ![p].text = text,
                          ![p].pc = IF PageChunks(text, p) # <<>> THEN "embed"
                                    ELSE IF NonBlank(text) THEN "summary"
                                    ELSE "save"]
                   /\ UNCHANGED faults
    /\ UNCHANGED <<ingestion_concurrency, file_exists, pdf_pages, ranked, query,
                   outcomes, retrieval, response_text, qa_chunks, citations,
                   config, request, stream, qa_db, llm_call, chunker, _jobs,
                   background_tasks, tool_vars,
                   documents_db, pages_db, vectors, now, main, main_error,
                   semaphore>>

PageStepRewrite(p) ==
    \/ Acquire(p)
    \/ ExtractFail(p)
    \/ \E v \in VisionInputs : RewritePage(p, v)
    \/ Embed(p)
    \/ EmbedFail(p)
    \/ Upsert(p)
    \/ UpsertFail(p)
    \/ \E result \in SummaryResults : Summarize(p, result)
    \/ SavePage(p)
    \/ \E e \in SaveErrors : SavePageFail(p, e)
    \/ SaveErrorPage(p)
    \/ \E e \in SaveErrors : SaveErrorPageFail(p, e)

NextRewrite ==
    \/ \E e \in FatalErrors, applied \in BOOLEAN : IngestFatal(e, applied)
    \/ IngestFanOut
    \/ \E applied \in BOOLEAN : GatherReturn(applied)
    \/ \E applied \in BOOLEAN : GatherRaise(applied)
    \/ \E p \in PageNos : PageStepRewrite(p)

SpecRewrite == InitOnePage /\ [][NextRewrite]_vars

\* the provider has no vision branch, or its client lacks an attribute the
\* branch needs
NoVisionSupport ==
    \/ vision.provider \notin VisionProviders
    \/ vision.provider = "gpt" /\ ~({"client", "AsyncOpenAI"} \subseteq vision.client)
    \/ vision.provider = "claude"
          /\ ~({"client", "model", "messages"} \subseteq vision.client)
    \/ vision.provider = "gemini" /\ "model" \notin vision.client

\* the text process_page goes on with after the rewriter returned
RewrittenOrCombined ==
    IF NonBlank(vision.rewritten_text) THEN vision.rewritten_text
    ELSE vision.extracted_content

ChunkTexts(text, page_no) ==
    {chunk_page_text(text, page_no)[i].text :
        i \in DOMAIN chunk_page_text(text, page_no)}

\* C25: the rewriter never raises and fails no page; without vision support,
\* without the preview image or when the provider call raises it returns the
\* combined extracted content unchanged; the text stored and chunked is the
\* rewritten text if it is non-blank, else the combined extracted content
C25_RewriterFallsBack ==
    /\ \A f \in faults : f[1] # "rewrite"
    /\ (now = 1 /\ task[0].pc \in {"embed", "upsert", "summary", "save"})
          => vision.returned /\ task[0].text = RewrittenOrCombined
    /\ vision.returned =>
          /\ (NoVisionSupport \/ ~vision.preview \/ vision.outcome = "raise")
                => vision.rewritten_text = vision.extracted_content
          /\ \A r \in pages_db : (r.page_no = vision.page /\ r.ready)
                => r.text = RewrittenOrCombined
          /\ \A c \in vectors : c.page_no = vision.page
                => c.document \in ChunkTexts(RewrittenOrCombined, vision.page)

\* the provider call raised and the page is stored with the combined
\* extracted content, chunked
C25_Witness ==
    /\ vision.returned
    /\ vision.preview
    /\ ~NoVisionSupport
    /\ vision.outcome = "raise"
    /\ vectors # {}
    /\ \E r \in pages_db :
          r.page_no = vision.page /\ r.ready /\ r.text = vision.extracted_content

\* ================================================================ chunker
\* TextChunker, src/backend/app/utils/chunking.py.  A text is a sequence of
\* pieces, each the number of characters of one sentence, or 0 for a piece
\* of white space only; a sentence of the text is known by its position.
MaxSentences == 4

target_chunk_size == 600

min_chunk_size == 400

max_chunk_size == 800

overlap_size == 75

\* sentences of 10, 70, 290, 300, 790 and 900 tokens
Lengths == {43, 281, 1163, 1200, 3160, 3601}

Texts == SeqsUpTo({0} \cup Lengths, MaxSentences)

\* text.strip() is not empty
HasText(text) == \E i \in DOMAIN text : text[i] > 0

\* nltk.sent_tokenize and the removal of the blank sentences
_split_into_sentences(text) ==
    LET kept == SelectSeq(text, LAMBDA n : n > 0)
    IN  [k \in DOMAIN kept |-> [pos |-> k, len |-> kept[k]]]

_estimate_tokens(sentence) == sentence.len \div 4

RECURSIVE SumTokens(_)
SumTokens(sentences) ==
    IF sentences = <<>> THEN 0
    ELSE _estimate_tokens(Head(sentences)) + SumTokens(Tail(sentences))

\* the last sentences that fit together in overlap_tokens
RECURSIVE _get_overlap_sentences(_, _)
_get_overlap_sentences(sentences, overlap_tokens) ==
    IF sentences = <<>> THEN <<>>
    ELSE LET last == sentences[Len(sentences)]
         IN  IF _estimate_tokens(last) <= overlap_tokens
             THEN _get_overlap_sentences(SubSeq(sentences, 1, Len(sentences) - 1),
                                         overlap_tokens - _estimate_tokens(last))
                  \o <<last>>
             ELSE <<>>

\* chunker before chunk_text is called on the text
Unchunked(text) ==
    [pc |-> "idle", text |-> text, page_no |-> 0, sentences |-> <<>>, next |-> 1,
     current_chunk |-> <<>>, current_size |-> 0, chunk_index |-> 0,
     chunks |-> <<>>, remainder |-> "none"]

Finalize_index_kept(st) ==
    LET overlap_sentences == _get_overlap_sentences(st.current_chunk, overlap_size)
    IN  [st EXCEPT
            !.chunks = Append(@, [text |-> st.current_chunk, page_no |-> st.page_no,
                                  chunk_index |-> st.chunk_index,
                                  token_count |-> st.current_size]),
            !.current_chunk = overlap_sentences,
            !.current_size = SumTokens(overlap_sentences)]

\* lines 67-83 and 91-107: the current chunk joins the chunks, the next one
\* starts with the overlap
Finalize(st) ==
    LET overlap_sentences == _get_overlap_sentences(st.current_chunk, overlap_size)
    IN  [st EXCEPT
            !.chunks = Append(@, [text |-> st.current_chunk, page_no |-> st.page_no,
                                  chunk_index |-> st.chunk_index,
                                  token_count |-> st.current_size]),
            !.current_chunk = overlap_sentences,
            !.current_size = SumTokens(overlap_sentences),
            !.chunk_index = @ + 1]

\* lines 52-60: the guard for blank text, the split, the empty accumulators
ChunkStart ==
    /\ chunker.pc = "idle"
    /\ chunker' = IF ~HasText(chunker.text)
                  THEN [chunker EXCEPT !.pc = "returned"]
                  ELSE [chunker EXCEPT
                           !.pc = "loop",
                           !.sentences = _split_into_sentences(chunker.text)]
    /\ UNCHANGED <<ingestion_vars, ranked, query, outcomes, retrieval,
                   response_text, qa_chunks, citations, config, request, stream,
                   qa_db, llm_call, vision, _jobs, background_tasks, tool_vars>>

\* lines 62-107: one pass of the loop over the sentences
ChunkSentence ==
    /\ chunker.pc = "loop"
    /\ chunker.next <= Len(chunker.sentences)
    /\ LET sentence == chunker.sentences[chunker.next]
           sentence_size == _estimate_tokens(sentence)
           closed == IF /\ chunker.current_size + sentence_size > max_chunk_size
                        /\ chunker.current_chunk # <<>>
                     THEN Finalize(chunker) ELSE chunker
           added == [closed EXCEPT !.current_chunk = Append(@, sentence),
                                   !.current_size = @ + sentence_size]
           reached == IF /\ added.current_size >= target_chunk_size
                         /\ added.current_size >= min_chunk_size
                      THEN Finalize(added) ELSE added
       IN  chunker' = [reached EXCEPT !.next = @ + 1]
    /\ UNCHANGED <<ingestion_vars, ranked, query, outcomes, retrieval,
                   response_text, qa_chunks, citations, config, request, stream,
                   qa_db, llm_call, vision, _jobs, background_tasks, tool_vars>>

\* lines 109-125: what is left becomes the last chunk, or is added to it
ChunkRemainder ==
    /\ chunker.pc = "loop"
    /\ chunker.next > Len(chunker.sentences)
    /\ LET n == Len(chunker.chunks)
       IN  chunker' =
             IF chunker.current_chunk = <<>>
             THEN [chunker EXCEPT !.pc = "returned"]
             ELSE IF chunker.current_size >= min_chunk_size \/ n = 0
             THEN [chunker EXCEPT
                      !.pc = "returned",
                      !.remainder = "appended",
                      !.chunks = Append(@, [text |-> chunker.current_chunk,
                                            page_no |-> chunker.page_no,
                                            chunk_index |-> chunker.chunk_index,
                                            token_count |-> chunker.current_size])]
             ELSE [chunker EXCEPT
                      !.pc = "returned",
                      !.remainder = "merged",
                      !.chunks[n].text = @ \o chunker.current_chunk,
                      !.chunks[n].token_count = @ + chunker.current_size]
    /\ UNCHANGED <<ingestion_vars, ranked, query, outcomes, retrieval,
                   response_text, qa_chunks, citations, config, request, stream,
                   qa_db, llm_call, vision, _jobs, background_tasks, tool_vars>>

InitChunker ==
    /\ IngestionIdle
    /\ documents_db = NoDoc
    /\ RetrievalIdle
    /\ CitationsIdle
    /\ StreamIdle
    /\ llm_call = NoCall
    /\ vision = NoVision
    /\ chunker \in {Unchunked(text) : text \in Texts}
    /\ _jobs = <<>>
    /\ background_tasks = <<>>
    /\ ToolsIdle

NextChunker == ChunkStart \/ ChunkSentence \/ ChunkRemainder

SpecChunker == InitChunker /\ [][NextChunker]_vars

Chunked == chunker.pc = "returned"

\* C26: the chunk_index values of the chunks returned are 0, 1, ..., n-1 in
\* the order of the chunks, also after the remainder was merged into the
\* last chunk; a text that is empty or white space gives no chunk
C26_ChunkIndexIsPosition ==
    Chunked =>
        /\ \A i \in DOMAIN chunker.chunks : chunker.chunks[i].chunk_index = i - 1
        /\ ~HasText(chunker.text) => chunker.chunks = <<>>

\* two chunks or more, the remainder merged into the last one
C26_Witness ==
    /\ Chunked
    /\ chunker.remainder = "merged"
    /\ Len(chunker.chunks) >= 2

\* C27: no chunk has a token_count above max_chunk_size, unless one of its
\* sentences alone is estimated above max_chunk_size
C27_TokenCountAtMostMax ==
    Chunked =>
        \A i \in DOMAIN chunker.chunks :
            \/ chunker.chunks[i].token_count <= max_chunk_size
            \/ \E j \in DOMAIN chunker.chunks[i].text :
                  _estimate_tokens(chunker.chunks[i].text[j]) > max_chunk_size

\* the sentences of a chunk are consecutive sentences of the text
Contiguous(sentences) ==
    \A j \in 1 .. (Len(sentences) - 1) : sentences[j + 1].pos = sentences[j].pos + 1

\* the chunk without the sentences seeded from the chunk before it
Unseeded(chunks, k) ==
    IF k = 1 THEN chunks[k].text
    ELSE LET before == chunks[k - 1].text
         IN  SelectSeq(chunks[k].text,
                       LAMBDA s : s.pos > before[Len(before)].pos)

RECURSIVE Concatenated(_, _)
Concatenated(chunks, k) ==
    IF k > Len(chunks) THEN <<>>
    ELSE Unseeded(chunks, k) \o Concatenated(chunks, k + 1)

\* C28: every chunk is a run of consecutive sentences of the text, each
\* once; every sentence is in a chunk; the chunks without their overlap
\* seeds, one after the other, are the sentences of the text
C28_ChunksCoverTheSentences ==
    Chunked =>
        /\ \A i \in DOMAIN chunker.chunks : Contiguous(chunker.chunks[i].text)
        /\ \A k \in DOMAIN chunker.sentences :
              \E i \in DOMAIN chunker.chunks :
                  \E j \in DOMAIN chunker.chunks[i].text :
                      chunker.chunks[i].text[j] = chunker.sentences[k]
        /\ Concatenated(chunker.chunks, 1) = chunker.sentences

\* ======================================================= background jobs
\* src/backend/app/workers/background_tasks.py
JobId == "job1"

\* every job id enqueue_ingestion has returned
Enqueued == {background_tasks[i] : i \in DOMAIN background_tasks} \cup DOMAIN _jobs

\* lines 14-32
get_job_status(job_id) ==
    IF job_id \in DOMAIN _jobs
    THEN [id |-> job_id, status |-> _jobs[job_id].status,
          error |-> _jobs[job_id].error]
    ELSE [id |-> job_id, status |-> "unknown", error |-> NoError]

jobs_unchanged == <<ranked, query, outcomes, retrieval, response_text, qa_chunks,
                    citations, config, request, stream, qa_db, llm_call, vision,
                    chunker, tool_vars>>

\* lines 103-116, called once by upload_document: the task is added, the id
\* returned; nothing is written to _jobs
EnqueueIngestion ==
    /\ JobId \notin Enqueued
    /\ background_tasks' = Append(background_tasks, JobId)
    /\ UNCHANGED <<ingestion_vars, jobs_unchanged, _jobs>>

\* lines 51-55: the response is sent and run_ingestion_task starts
RunIngestionTask ==
    /\ background_tasks # <<>>
    /\ background_tasks' = Tail(background_tasks)
    /\ _jobs' = (Head(background_tasks) :> [status |-> "running", error |-> NoError])
                @@ _jobs
    /\ UNCHANGED <<ingestion_vars, jobs_unchanged>>

Running == JobId \in DOMAIN _jobs /\ _jobs[JobId].status = "running"

\* lines 67-71: ingest_document returned
JobCompleted ==
    /\ Running
    /\ main = "returned"
    /\ _jobs' = [_jobs EXCEPT ![JobId].status = "completed"]
    /\ UNCHANGED <<ingestion_vars, jobs_unchanged, background_tasks>>

JobFailed_as_completed ==
    /\ Running
    /\ main = "raised"
    /\ _jobs' = [_jobs EXCEPT ![JobId].status = "completed"]
    /\ UNCHANGED <<ingestion_vars, jobs_unchanged, background_tasks>>

\* lines 73-79: ingest_document raised
JobFailed ==
    /\ Running
    /\ main = "raised"
    /\ _jobs' = [_jobs EXCEPT ![JobId].status = "failed", ![JobId].error = main_error]
    /\ UNCHANGED <<ingestion_vars, jobs_unchanged, background_tasks>>

\* lines 57-65: ingest_document is awaited by the task that runs the job;
\* the page tasks it created go on after it raised
NextJobs ==
    \/ EnqueueIngestion
    \/ RunIngestionTask
    \/ Running /\ \E e \in FatalErrors, applied \in BOOLEAN : IngestFatal(e, applied)
    \/ Running /\ IngestFanOut
    \/ \E applied \in BOOLEAN : GatherReturn(applied)
    \/ \E applied \in BOOLEAN : GatherRaise(applied)
    \/ \E p \in PageNos : PageStep(p)
    \/ JobCompleted
    \/ JobFailed

\* _jobs keeps the entries of the jobs that ended earlier in this process
PreviousJobs ==
    {<<>>,
     "job0" :> [status |-> "completed", error |-> NoError],
     "job0" :> [status |-> "failed", error |-> "PDF file not found"]}

\* a document was uploaded, its ingestion is not yet enqueued
InitJobs ==
    /\ ingestion_concurrency \in {0, MaxConcurrency}
    /\ file_exists \in BOOLEAN
    /\ pdf_pages \in PdfFiles
    /\ documents_db \in {NoDoc, UploadedDoc}
    /\ pages_db = {}
    /\ vectors = {}
    /\ now = 0
    /\ main = "idle"
    /\ main_error = ""
    /\ semaphore = 0
    /\ task = [p \in PageNos |-> NoTask]
    /\ faults = {}
    /\ RetrievalIdle
    /\ CitationsIdle
    /\ StreamIdle
    /\ llm_call = NoCall
    /\ vision = NoVision
    /\ chunker = NoChunker
    /\ _jobs \in PreviousJobs
    /\ background_tasks = <<>>
    /\ ToolsIdle

SpecJobs == InitJobs /\ [][NextJobs]_vars

\* the event loop runs every task that can run, and every call to the
\* outside returns or raises
FairSpecJobs == SpecJobs /\ WF_vars(NextJobs)

\* C29: get_job_status reports running, completed or failed for every job
\* id enqueue_ingestion has returned, at every moment
C29_StatusOfEnqueuedJob ==
    \A job_id \in Enqueued :
        get_job_status(job_id).status \in {"running", "completed", "failed"}

PagesSettled == \A p \in PageNos : Settled(p)

DocumentMarked ==
    /\ documents_db # NoDoc
    /\ documents_db.ingestion_completed \/ documents_db.ingestion_failed

JobEnded ==
    JobId \in DOMAIN _jobs /\ _jobs[JobId].status \in {"completed", "failed"}

\* C30: once the job runs, every page task gets a permit and settles, the
\* document gets ingestion_completed or ingestion_failed, and the job gets
\* the status completed or failed
C30_RunsToCompletion ==
    /\ Running ~> PagesSettled
    /\ Running ~> DocumentMarked
    /\ Running ~> JobEnded

\* the part of C30 about the page tasks and the job
C30_TasksAndJobEnd ==
    /\ Running ~> [](main # "idle" /\ PagesSettled)
    /\ Running ~> JobEnded

\* ============================================== page tasks and the document
\* a run has created its page tasks
FannedOut == \E p \in PageNos : task[p].pc # "none"

\* a page task is never started twice and never runs again once it is done
ProcessedOnce ==
    \A p \in PageNos :
        /\ task'[p].pc = "wait" => task[p].pc \in {"none", "wait"}
        /\ task'[p].pc = "extract" => task[p].pc \in {"wait", "extract"}
        /\ task[p].pc = "done" => task'[p].pc = "done"

\* C34: every page task gives its permit back when it ends, with a page
\* record, with an error record or with an exception of the error record:
\* free permits and permits held are max(1, ingestion_concurrency) in all,
\* a waiting task always has a free permit or a holder ahead of it, every
\* page 0..page_count-1 has one task, which runs once
C34_NoPermitLost ==
    /\ [](FannedOut =>
            /\ semaphore + Cardinality(Holders) = Limit
            /\ Waiting # {} => (semaphore > 0 \/ Holders # {})
            /\ \A p \in PageNos : p \in RunPages <=> task[p].pc # "none"
            /\ Finished /\ main = "returned" => \A p \in RunPages : task[p].pc = "done")
    /\ [][ProcessedOnce]_vars

\* more pages than permits; a task ended with an exception of its error
\* record, the other one after it, and all permits are free
C34_Witness ==
    /\ page_count > Limit
    /\ \E p \in RunPages : task[p].pc = "done" /\ task[p].raised
    /\ \A p \in RunPages : task[p].pc = "done"
    /\ semaphore = Limit

\* ingest_document raised because a provider is not available, lines 59-67
ProviderUnavailable == main = "raised" /\ main_error = "Provider not available"

\* C35: an embedding or summary provider that is not available makes
\* ingest_document raise before any page task starts and before any page
\* record or vector is written; the document is marked ingestion_failed
\* with the error and not ingestion_completed, and the job ends failed
C35_ProviderFatalBeforeFanOut ==
    ProviderUnavailable =>
        /\ \A p \in PageNos : task[p].pc = "none"
        /\ pages_db = {} /\ vectors = {}
        /\ documents_db # NoDoc
        /\ documents_db.ingestion_failed
        /\ documents_db.ingestion_error = main_error
        /\ ~documents_db.ingestion_completed
        /\ JobEnded => _jobs[JobId].status = "failed"

\* the jobs of documents of one page at most
InitShortJobs == InitJobs /\ Len(pdf_pages) <= 1

FairSpecShortJobs ==
    InitShortJobs /\ [][NextJobs]_vars /\ WF_vars(NextJobs)

\* an entry of _jobs changes only from running to completed or failed, and
\* only the entry of the job that runs; no entry is removed
JobStep ==
    /\ DOMAIN _jobs \subseteq DOMAIN _jobs'
    /\ \A j \in DOMAIN _jobs :
          _jobs'[j] # _jobs[j] =>
              /\ j = JobId
              /\ _jobs[j].status = "running"
              /\ _jobs'[j].status \in {"completed", "failed"}

\* C36: the status of a job goes from running to completed or to failed and
\* then stays; it is failed, with the error text, when and only when
\* ingest_document raised, completed when and only when it returned; the
\* run of a job leaves the entries of the other jobs alone
C36_JobStatusMoves ==
    /\ [][JobStep]_vars
    /\ [](JobId \in DOMAIN _jobs =>
            /\ _jobs[JobId].status \in {"running", "completed", "failed"}
            /\ _jobs[JobId].status = "failed" =>
                  main = "raised" /\ _jobs[JobId].error = main_error
            /\ _jobs[JobId].status = "completed" =>
                  main = "returned" /\ _jobs[JobId].error = NoError)
    /\ (main = "raised") ~> (get_job_status(JobId).status = "failed")
    /\ (main = "returned") ~> (get_job_status(JobId).status = "completed")

\* the job failed with the error of ingest_document next to the entry of an
\* earlier job
C36_Witness ==
    /\ DOMAIN _jobs = {"job0", JobId}
    /\ _jobs["job0"].status = "completed"
    /\ _jobs[JobId].status = "failed"
    /\ _jobs[JobId].error = "Error saving document"

\* C37: a run writes at most one of the two flags, ingestion_failed only
\* when it raised, and a job with status completed has a document with
\* ingestion_completed = true
C37_OneFlagPerRun ==
    /\ documents_db # NoDoc =>
          /\ ~(documents_db.ingestion_completed /\ documents_db.ingestion_failed)
          /\ documents_db.ingestion_failed => main = "raised"
    /\ get_job_status(JobId).status = "completed" => Completed

\* C38: once ingest_document has returned or raised, and once the job is
\* completed or failed, no page task of the run is waiting or running and
\* none holds a permit, so none writes a page record or a vector later
C38_NoTaskOutlivesTheRun ==
    (Finished \/ JobEnded) =>
        /\ \A p \in PageNos : Settled(p)
        /\ Holders = {}
        /\ semaphore = Limit \/ ~FannedOut

\* C39: after a run, a page with a record that has ready = false has no
\* chunk of that run in the vector store
C39_FailedPageHasNoVectors ==
    Finished =>
        \A r \in pages_db :
            ~r.ready =>
                \A v \in vectors : ~(v.page_no = r.page_no /\ v.run = r.created_at)

\* ======================================================================
\* regenerate_summaries (backend/app/utils/fix_summaries.py): summaries are
\* generated again for pages of a document that is already stored
\* ======================================================================
\* a page record as a finished ingestion left it
StoredPage(p, text, summary, key_terms) ==
    [id |-> PageId(p), type |-> "page", document_id |-> DocId, page_no |-> p,
     text |-> text, summary |-> summary, key_terms |-> key_terms,
     preview_image_path |-> "page.png", ready |-> TRUE, error |-> NoError,
     created_at |-> 1]

\* the record the except branch of a page task left
StoredErrorPage(p) ==
    [id |-> PageId(p), type |-> "page", document_id |-> DocId, page_no |-> p,
     text |-> <<>>, summary |-> "", key_terms |-> <<>>,
     preview_image_path |-> "", ready |-> FALSE, error |-> "Embedding failed",
     created_at |-> 1]

\* what the store may hold for page p: nothing, a page whose summary is
\* missing, a summarized page, a page of blank text, an error record
StoredPagesOf(p) ==
    {{},
     {StoredPage(p, <<"page text.">>, "", <<>>)},
     {StoredPage(p, <<"page text.">>, "old explanation", <<"old term">>)},
     {StoredPage(p, <<" ">>, "", <<>>)},
     {StoredErrorPage(p)}}

PageStores ==
    {UNION {choice[p] : p \in PageNos} :
        choice \in {c \in [PageNos -> UNION {StoredPagesOf(p) : p \in PageNos}] :
                        \A p \in PageNos : c[p] \in StoredPagesOf(p)}}

\* Optional[List[int]]: None, or a list of page numbers
NoPageNumbers == [given |-> FALSE, list |-> <<>>]

PageNumbers ==
    {NoPageNumbers} \cup
    {[given |-> TRUE, list |-> l] : l \in SeqsUpTo(PageNos, MaxPages)}

\* what _generate_summary_and_terms returns: the parsed answer, or "", []
\* when the call or the parsing failed
Generated ==
    {[summary |-> "new explanation", key_terms |-> <<"new term">>],
     [summary |-> "new explanation", key_terms |-> <<>>],
     [summary |-> "", key_terms |-> <<>>]}

\* couch_client.get_doc(config.pages_db, f"{doc_id}_page_{page_no}")
get_doc(db, id) == {r \in db : r.id = id}

\* the truth value of a str.strip() of a summary
BlankSummary(summary) == summary \in Whitespace

\* check_missing_summaries(doc_id): the pages of the document that have text
\* and no summary, in the order of their ids
check_missing_summaries(db) ==
    LET missing == {r \in db : r.type = "page" /\ r.document_id = DocId
                               /\ NonBlank(r.text) /\ BlankSummary(r.summary)}
    IN  SelectSeq([i \in 1 .. MaxPages |-> i - 1],
                  LAMBDA p : \E r \in missing : r.page_no = p)

\* the page documents loaded for a list of page numbers; pages that are not
\* found are left out
RECURSIVE LoadPages(_, _)
LoadPages(db, list) ==
    IF list = <<>> THEN <<>>
    ELSE LET found == get_doc(db, PageId(Head(list)))
         IN  (IF found = {} THEN <<>> ELSE <<CHOOSE r \in found : TRUE>>)
             \o LoadPages(db, Tail(list))

NoResults == [pages_processed |-> 0, pages_updated |-> 0, pages_failed |-> 0,
              details |-> <<>>]

\* lines 198-238: the client is built, the document is looked up, the pages
\* to process are loaded
RegenerateStart(page_numbers, client_ok) ==
    /\ regeneration.pc = "idle"
    /\ regeneration' =
         IF ~client_ok THEN [pc |-> "raised", error |-> "Provider not available"]
         ELSE IF documents_db = NoDoc
         THEN [pc |-> "raised", error |-> "Document not found"]
         ELSE IF ~page_numbers.given /\ check_missing_summaries(pages_db) = <<>>
         THEN [pc |-> "returned", pages_to_process |-> <<>>,
               results |-> NoResults, message |-> "No pages with missing summaries"]
         ELSE LET list == IF page_numbers.given THEN page_numbers.list
                          ELSE check_missing_summaries(pages_db)
                  pages_to_process == LoadPages(pages_db, list)
              IN  [pc |-> IF pages_to_process = <<>> THEN "returned" ELSE "loop",
                   pages_to_process |-> pages_to_process,
                   results |-> NoResults, message |-> ""]
    /\ UNCHANGED <<ingestion_vars, ranked, query, outcomes, retrieval,
                   response_text, qa_chunks, citations, config, request, stream,
                   qa_db, llm_call, vision, chunker, _jobs, background_tasks,
                   extractor, deletion, lookup>>

\* the page is written whatever the summary is
ShouldUpdate_always(summary) == TRUE

\* line 275: if summary
ShouldUpdate(summary) == summary # ""

\* lines 277-284: the fields update_doc is given
SummaryUpdates(summary, key_terms) ==
    [summary |-> summary, key_terms |-> key_terms]

Detail(page_no, status, reason) ==
    [page_no |-> page_no, status |-> status, reason |-> reason]

\* lines 249-313, one turn of the loop: the page is skipped, or a summary is
\* generated and, when there is one, written with update_doc
RegeneratePage(generated, applied) ==
    /\ regeneration.pc = "loop"
    /\ LET page_doc_ == Head(regeneration.pages_to_process)
           rest == Tail(regeneration.pages_to_process)
           text == Strip(page_doc_.text)
           stored == get_doc(pages_db, page_doc_.id)
           update_success == ShouldUpdate(generated.summary) /\ applied /\ stored # {}
           status == IF text = <<>> THEN "skipped"
                     ELSE IF update_success THEN "success" ELSE "failed"
           reason == IF text = <<>> THEN "No text content"
                     ELSE IF ~ShouldUpdate(generated.summary)
                     THEN "Failed to generate summary"
                     ELSE IF ~update_success THEN "Failed to update document"
                     ELSE ""
       IN  /\ pages_db' =
                IF text # <<>> /\ update_success
                THEN {IF r \in stored
                      THEN update_doc(r, SummaryUpdates(generated.summary,
                                                        generated.key_terms))
                      ELSE r : r \in pages_db}
                ELSE pages_db
           /\ regeneration' =
                [regeneration EXCEPT
                    !.pc = IF rest = <<>> THEN "returned" ELSE "loop",
                    !.pages_to_process = rest,
                    !.results.pages_processed = @ + 1,
                    !.results.pages_updated = IF status = "success" THEN @ + 1 ELSE @,
                    !.results.pages_failed = IF status = "failed" THEN @ + 1 ELSE @,
                    !.results.details = Append(@, Detail(page_doc_.page_no, status, reason))]
    /\ UNCHANGED <<ingestion_concurrency, file_exists, pdf_pages, documents_db,
                   vectors, now, main, main_error, semaphore, task, faults,
                   ranked, query, outcomes, retrieval, response_text, qa_chunks,
                   citations, config, request, stream, qa_db, llm_call, vision,
                   chunker, _jobs, background_tasks, extractor, deletion, lookup>>

\* an ingestion of the document has finished, regenerate_summaries is not
\* yet called
InitRegenerate ==
    /\ ingestion_concurrency = MaxConcurrency
    /\ file_exists = TRUE
    /\ pdf_pages = <<>>
    /\ documents_db \in {NoDoc, UploadedDoc}
    /\ pages_db \in PageStores
    /\ vectors = {}
    /\ now = 1
    /\ main = "idle"
    /\ main_error = ""
    /\ semaphore = 0
    /\ task = [p \in PageNos |-> NoTask]
    /\ faults = {}
    /\ RetrievalIdle
    /\ CitationsIdle
    /\ StreamIdle
    /\ PartsIdle

NextRegenerate ==
    \/ \E page_numbers \in PageNumbers, client_ok \in BOOLEAN :
            RegenerateStart(page_numbers, client_ok)
    \/ \E generated \in Generated, applied \in BOOLEAN :
            RegeneratePage(generated, applied)

SpecRegenerate == InitRegenerate /\ [][NextRegenerate]_vars

FrameFields == {"summary", "key_terms"}

\* what a step may do to the page records: none is added or removed, every
\* field but summary and key_terms keeps its value, and a record changes
\* only when its text is not blank and its new summary is not empty
SummaryOnlyStep ==
    /\ {r.id : r \in pages_db'} = {r.id : r \in pages_db}
    /\ Cardinality(pages_db') = Cardinality(pages_db)
    /\ \A r \in pages_db : \A n \in pages_db' :
          n.id = r.id =>
            /\ \A f \in DOMAIN r \ FrameFields : n[f] = r[f]
            /\ n # r => /\ NonBlank(r.text)
                        /\ n.summary # ""
                        /\ regeneration.pc = "loop"
                        /\ Head(regeneration.pages_to_process).id = r.id

\* C31: regenerate_summaries changes only the summary and key_terms fields
\* of the page records it updates: text, page number, preview path, ready
\* flag and error field of every page keep their values, a page of blank
\* text is skipped, and a page is updated only when the newly generated
\* summary is not empty
C31_OnlySummaryFieldsChange ==
    /\ [][SummaryOnlyStep]_vars
    /\ [](regeneration.pc \in {"loop", "returned"} =>
            \A i \in DOMAIN regeneration.results.details :
                LET d == regeneration.results.details[i]
                IN  \A r \in pages_db :
                        (r.page_no = d.page_no /\ ~NonBlank(r.text))
                            => d.status = "skipped")

\* C31 witness: the call has returned after it replaced the old summary of
\* one page and skipped a page of blank text
C31_Witness ==
    /\ regeneration.pc = "returned"
    /\ \E i, j \in DOMAIN regeneration.results.details :
          /\ regeneration.results.details[i].status = "success"
          /\ regeneration.results.details[j].status = "skipped"
    /\ \E r \in pages_db :
          /\ r.summary = "new explanation"
          /\ r.key_terms = <<>>
          /\ r.text = <<"page text.">>
    /\ \E r \in pages_db : r.text = <<" ">> /\ r.summary = ""

\* ======================================================================
\* the identifier of a chunk in the vector collection
\* (backend/app/vector/client.py, upsert_chunks and search)
\* ======================================================================
MaxPoints == 2

\* document ids with and without the separator and a digit in them
PointDocIds == {<<"d">>, <<"d", "_", "1">>}

\* page numbers and chunk indexes of one and of two digits
PointNumbers == {1, 11}

PointTriples ==
    [doc_id : PointDocIds, page_no : PointNumbers, chunk_index : PointNumbers]

PointTexts == {"old text", "new text"}

TripleOf(r) ==
    [doc_id |-> r.doc_id, page_no |-> r.page_no, chunk_index |-> r.chunk_index]

\* the collection as a query sees it: its records in some order of distance
Rankings(collection) ==
    LET n == Cardinality(collection)
        orders == {o \in [1 .. n -> collection] :
                      \A i, j \in 1 .. n : o[i] = o[j] => i = j}
    IN  {[i \in 1 .. n |->
            [id |-> o[i].id, doc_id |-> o[i].doc_id, page_no |-> o[i].page_no,
             chunk_index |-> o[i].chunk_index, document |-> o[i].document,
             distance |-> i]] : o \in orders}

\* vector_client.upsert_chunks(collection_name, [chunk], [embedding])
UpsertChunk(triple, text) ==
    /\ LET chunk == [doc_id |-> triple.doc_id, page_no |-> triple.page_no,
                     chunk_index |-> triple.chunk_index, text |-> text,
                     run |-> 0]
       IN  vectors' = upsert_chunks(vectors, <<chunk>>)
    /\ Cardinality(vectors') <= MaxPoints
    /\ UNCHANGED <<ingestion_concurrency, file_exists, pdf_pages, documents_db,
                   pages_db, now, main, main_error, semaphore, task, faults,
                   qa_vars>>

\* vector_client.search(collection_name, query_vector,
\* filter_conditions={"doc_id": ..., "page_no": ..., "chunk_index": ...}),
\* with the default limit
SearchChunk(triple, ok) ==
    /\ \E collection \in Rankings(vectors) :
          lookup' = [pc |-> "returned", filter_conditions |-> triple, ok |-> ok,
                     results |-> search(collection, DefaultTopK, triple, ok)]
    /\ UNCHANGED <<ingestion_vars, ranked, query, outcomes, retrieval,
                   response_text, qa_chunks, citations, config, request, stream,
                   qa_db, llm_call, vision, chunker, _jobs, background_tasks,
                   regeneration, extractor, deletion>>

\* an empty collection
InitPoints ==
    /\ IngestionIdle
    /\ documents_db = NoDoc
    /\ RetrievalIdle
    /\ CitationsIdle
    /\ StreamIdle
    /\ PartsIdle

NextPoints ==
    \/ \E triple \in PointTriples, text \in PointTexts : UpsertChunk(triple, text)
    \/ \E triple \in PointTriples, ok \in BOOLEAN : SearchChunk(triple, ok)

SpecPoints == InitPoints /\ [][NextPoints]_vars

\* the answers a query for exactly this triple can get from the collection
ExactAnswers(collection, triple) ==
    {search(c, DefaultTopK, triple, TRUE) : c \in Rankings(collection)}

\* an upsert adds or replaces the record of its triple and keeps the record
\* of every other triple
UpsertKeepsOthers ==
    vectors' # vectors =>
        \E n \in vectors' :
            /\ \A r \in vectors : TripleOf(r) # TripleOf(n) => r \in vectors'
            /\ \A answer \in ExactAnswers(vectors', TripleOf(n)) :
                  /\ Len(answer) = 1
                  /\ answer[1].text = n.document
                  /\ answer[1].id = n.id

\* a search that the store answers returns the one record stored under the
\* triple, or nothing when none is stored
SearchFindsThePoint ==
    (lookup' # lookup /\ lookup'.ok) =>
        LET stored == {r \in vectors : TripleOf(r) = lookup'.filter_conditions}
        IN  /\ Cardinality(stored) <= 1
            /\ Len(lookup'.results) = Cardinality(stored)
            /\ \A r \in stored : /\ lookup'.results[1].id = r.id
                                 /\ lookup'.results[1].text = r.document

\* C32: the vector identifier built from (document id, page number, chunk
\* index) is different for different triples, and once a chunk is upserted
\* under a triple, a query filtered on exactly that document id, page number
\* and chunk index matches that chunk and no other
C32_PointIdOneToOne ==
    /\ [](\A s, t \in PointTriples : PointId(s) = PointId(t) => s = t)
    /\ [](\A v \in vectors :
            /\ v.id = PointId(TripleOf(v))
            /\ \A answer \in ExactAnswers(vectors, TripleOf(v)) :
                  Len(answer) = 1 /\ answer[1].id = v.id)
    /\ [][UpsertKeepsOthers]_vars
    /\ [][SearchFindsThePoint]_vars

\* C32 witness: two chunks whose page number and chunk index have the same
\* digits in a row are both stored, and a query for one of them returned
\* it alone
C32_Witness ==
    /\ lookup.pc = "returned"
    /\ lookup.ok
    /\ lookup.filter_conditions = [doc_id |-> <<"d">>, page_no |-> 1, chunk_index |-> 11]
    /\ Len(lookup.results) = 1
    /\ lookup.results[1].text = "new text"
    /\ {TripleOf(v) : v \in vectors} =
          {[doc_id |-> <<"d">>, page_no |-> 1, chunk_index |-> 11],
           [doc_id |-> <<"d">>, page_no |-> 11, chunk_index |-> 1]}

\* ======================================================================
\* PDFProcessor.extract_all_page_content (backend/app/utils/pdf.py): the
\* text, the tables and the images of one page
\* ======================================================================
\* what a library call does: it raises, it returns None, or it returns a
\* value
Raises == [kind |-> "raises"]

ReturnsNone == [kind |-> "none"]

Returns(value) == [kind |-> "value", value |-> value]

PageTexts == {<<>>, <<" ">>, <<"", "text a", " ">>, <<"text b">>}

\* page.get_text() of PyMuPDF
PrimaryOutcomes == {Raises} \cup {Returns(t) : t \in PageTexts}

\* pdfplumber.open(...).pages[page_no].extract_text()
SecondaryOutcomes == {Raises, ReturnsNone} \cup {Returns(t) : t \in PageTexts}

\* a cell of a table that pdfplumber left empty
NoneCell == "<None>"

\* page.extract_tables(): a list of tables, a table is a list of rows
TablesOutcomes ==
    {Raises, Returns(<<>>),
     Returns(<< <<<<"a", NoneCell>>, <<"b", "c">>>> >>),
     Returns(<< <<>>, <<<<"a">>>> >>)}

\* page.get_images() and, for each image, whether it can be decoded and
\* saved
ImagesOutcomes ==
    {Raises, Returns(<<>>), Returns(<<TRUE>>), Returns(<<FALSE, TRUE>>),
     Returns(<<FALSE>>)}

\* what a method of PDFProcessor does: it raises, or it returns a value
Raised == [raised |-> TRUE, value |-> <<>>]

ReturnedValue(value) == [raised |-> FALSE, value |-> value]

\* lines 65-74: "" when pdfplumber raises or finds no text
_extract_with_pdfplumber(secondary) ==
    IF secondary.kind = "value" THEN ReturnedValue(Strip(secondary.value))
    ELSE ReturnedValue(<<>>)

\* the fallback is not tried when PyMuPDF raises
extract_page_text_no_fallback(primary, secondary) ==
    IF primary.kind = "raises" THEN Raised
    ELSE IF ~NonBlank(primary.value) THEN _extract_with_pdfplumber(secondary)
    ELSE ReturnedValue(Strip(primary.value))

\* lines 36-63
extract_page_text(primary, secondary) ==
    IF primary.kind = "raises"
    THEN LET fallback == _extract_with_pdfplumber(secondary)
         IN  IF fallback.raised THEN ReturnedValue(<<>>) ELSE fallback
    ELSE IF ~NonBlank(primary.value)
    THEN LET text == _extract_with_pdfplumber(secondary)
         IN  IF text.raised THEN text ELSE ReturnedValue(Strip(text.value))
    ELSE ReturnedValue(Strip(primary.value))

\* lines 107-118: the rows of a table, None cells as ""
_table_to_text(table) ==
    [i \in DOMAIN table |->
        [j \in DOMAIN table[i] |->
            IF table[i][j] = NoneCell THEN "" ELSE table[i][j]]]

\* lines 76-105: the tables that are not empty, with their index in the list
extract_page_tables(tables) ==
    IF tables.kind # "value" THEN ReturnedValue(<<>>)
    ELSE LET extracted_tables == tables.value
             kept == SelectSeq([i \in DOMAIN extracted_tables |-> i],
                               LAMBDA i : extracted_tables[i] # <<>>)
         IN  ReturnedValue([k \in DOMAIN kept |->
                          [index |-> kept[k] - 1,
                           data |-> extracted_tables[kept[k]],
                           text |-> _table_to_text(extracted_tables[kept[k]])]])

\* lines 120-173: the images that could be decoded, with their index in the
\* list; an image that cannot be decoded is left out
extract_page_images(images) ==
    IF images.kind # "value" THEN ReturnedValue(<<>>)
    ELSE LET image_list == images.value
             kept == SelectSeq([i \in DOMAIN image_list |-> i],
                               LAMBDA i : image_list[i])
         IN  ReturnedValue([k \in DOMAIN kept |-> [index |-> kept[k] - 1]])

EmptyContent == [text |-> <<>>, tables |-> <<>>, images |-> <<>>]

\* line 186-190: content is created
ExtractStart ==
    /\ extractor.pc = "idle"
    /\ extractor' = [pc |-> "text", content |-> EmptyContent]
    /\ UNCHANGED <<ingestion_vars, ranked, query, outcomes, retrieval,
                   response_text, qa_chunks, citations, config, request, stream,
                   qa_db, llm_call, vision, chunker, _jobs, background_tasks,
                   regeneration, deletion, lookup>>

\* the tuple of the variables the extractor leaves alone
extract_unchanged == <<ingestion_vars, ranked, query, outcomes, retrieval,
                       response_text, qa_chunks, citations, config, request,
                       stream, qa_db, llm_call, vision, chunker, _jobs,
                       background_tasks, regeneration, deletion, lookup>>

\* one line of extract_all_page_content: the value a method returned is
\* stored in content; an exception it raised would leave the function
Extracted(field, result, calls, next) ==
    IF result.raised
    THEN [pc |-> "raised", content |-> extractor.content] @@ calls @@ extractor
    ELSE [pc |-> next,
          content |-> [extractor.content EXCEPT ![field] = result.value]]
         @@ calls @@ extractor

\* line 193
ExtractText(primary, secondary) ==
    /\ extractor.pc = "text"
    /\ extractor' = Extracted("text", extract_page_text(primary, secondary),
                              [primary |-> primary, secondary |-> secondary],
                              "tables")
    /\ UNCHANGED extract_unchanged

\* line 196
ExtractTables(tables) ==
    /\ extractor.pc = "tables"
    /\ extractor' = Extracted("tables", extract_page_tables(tables),
                              [tables |-> tables], "images")
    /\ UNCHANGED extract_unchanged

\* line 199 and the return at line 204
ExtractImages(images) ==
    /\ extractor.pc = "images"
    /\ extractor' = Extracted("images", extract_page_images(images),
                              [images |-> images], "returned")
    /\ UNCHANGED extract_unchanged

InitExtract ==
    /\ IngestionIdle
    /\ documents_db = UploadedDoc
    /\ RetrievalIdle
    /\ CitationsIdle
    /\ StreamIdle
    /\ PartsIdle

NextExtract ==
    \/ ExtractStart
    \/ \E primary \in PrimaryOutcomes, secondary \in SecondaryOutcomes :
            ExtractText(primary, secondary)
    \/ \E tables \in TablesOutcomes : ExtractTables(tables)
    \/ \E images \in ImagesOutcomes : ExtractImages(images)

SpecExtract == InitExtract /\ [][NextExtract]_vars

\* the secondary extractor's text, "" when it raised or found none
SecondaryText(secondary) ==
    IF secondary.kind = "value" THEN Strip(secondary.value) ELSE <<>>

\* C33: a failure of one of text, tables and images does not abort the
\* other two: extract_all_page_content never raises, the part that failed
\* is empty and the others are what their extractors found; the text is the
\* secondary extractor's when the primary raises or returns blank text, and
\* is empty when both fail
C33_PartsFailAlone ==
    /\ extractor.pc # "raised"
    /\ extractor.pc \in {"tables", "images", "returned"} =>
          LET primary == extractor.primary
              secondary == extractor.secondary
              text == extractor.content.text
          IN  /\ (primary.kind = "value" /\ NonBlank(primary.value))
                    => text = Strip(primary.value)
              /\ (primary.kind = "raises" \/ ~NonBlank(primary.value))
                    => text = SecondaryText(secondary)
              /\ (primary.kind = "raises" /\ secondary.kind # "value")
                    => text = <<>>
    /\ extractor.pc \in {"images", "returned"} =>
          LET found == extractor.content.tables
          IN  /\ extractor.tables.kind = "raises" => found = <<>>
              /\ extractor.tables.kind = "value" =>
                    /\ Len(found)
                         = Cardinality({i \in DOMAIN extractor.tables.value :
                                            extractor.tables.value[i] # <<>>})
                    /\ \A k \in DOMAIN found :
                          found[k].data = extractor.tables.value[found[k].index + 1]
    /\ extractor.pc = "returned" =>
          LET found == extractor.content.images
          IN  /\ extractor.images.kind = "raises" => found = <<>>
              /\ extractor.images.kind = "value" =>
                    /\ Len(found)
                         = Cardinality({i \in DOMAIN extractor.images.value :
                                            extractor.images.value[i]})
                    /\ \A k \in DOMAIN found :
                          extractor.images.value[found[k].index + 1]

\* C33 witness: the primary text extractor and the table extractor raised,
\* one of two images could not be decoded, and the content returned has the
\* secondary extractor's text, no table and the other image
C33_Witness ==
    /\ extractor.pc = "returned"
    /\ extractor.primary.kind = "raises"
    /\ extractor.secondary.kind = "value"
    /\ extractor.tables.kind = "raises"
    /\ extractor.images = Returns(<<FALSE, TRUE>>)
    /\ extractor.content =
          [text |-> <<"text a">>, tables |-> <<>>, images |-> <<[index |-> 1]>>]

\* ======================================================================
\* delete_document (backend/app/api/documents.py) while the document's
\* ingestion may be under way.  delete_document awaits nothing, so the
\* event loop runs it between two steps of the ingestion coroutines.
\* ======================================================================
\* a Q&A record of the document, written by an earlier question
StoredQa ==
    [id |-> <<"qa", 1>>, type |-> "qa", document_id |-> DocId, page_no |-> 0]

\* find_pages_by_document(pages_db, doc_id, limit=10000)
find_pages_by_document(db, document_id) ==
    {r \in db : r.type = "page" /\ r.document_id = document_id}

\* find_qa_by_document(qa_db, doc_id, limit=10000)
find_qa_by_document(db, document_id) ==
    {r \in db : r.type = "qa" /\ r.document_id = document_id}

\* delete_doc for each of the records found
delete_docs(db, found) == db \ found

\* collection.get(where={"doc_id": doc_id}) and collection.delete(ids=...)
delete_document_chunks(collection, doc_id) ==
    {v \in collection : v.doc_id # doc_id}

\* lines 300-411: 404 when the document record is missing, 403 for another
\* user's document; else the pages, the Q&A records, the vectors, the PDF
\* file and the document record are deleted, in this order
DeleteDocument(is_owner) ==
    /\ deletion.pc = "idle"
    /\ IF documents_db = NoDoc \/ ~is_owner
       THEN /\ deletion' = [pc |-> "raised",
                            status_code |-> IF documents_db = NoDoc THEN 404 ELSE 403]
            /\ UNCHANGED <<pages_db, qa_db, vectors, file_exists, documents_db>>
       ELSE LET pages == find_pages_by_document(pages_db, DocId)
                qa_records == find_qa_by_document(qa_db, DocId)
            IN  /\ pages_db' = delete_docs(pages_db, pages)
                /\ qa_db' = delete_docs(qa_db, qa_records)
                /\ vectors' = delete_document_chunks(vectors, DocId)
                /\ file_exists' = FALSE
                /\ documents_db' = NoDoc
                /\ deletion' =
                     [pc |-> "returned",
                      deletion_summary |->
                         [document |-> TRUE, pages |-> Cardinality(pages),
                          qa_records |-> Cardinality(qa_records),
                          vector_chunks |-> 1, pdf_file |-> file_exists]]
    /\ UNCHANGED <<ingestion_concurrency, pdf_pages, now, main, main_error,
                   semaphore, task, faults, ranked, query, outcomes, retrieval,
                   response_text, qa_chunks, citations, config, request, stream,
                   llm_call, vision, chunker, _jobs, background_tasks,
                   regeneration, extractor, lookup>>

\* PDFProcessor(file_path) of a page task (lines 81-90) raises once the PDF
\* file is removed
OpensTheFile ==
    \A p \in PageNos :
        (task[p].pc = "extract" /\ task'[p].pc \notin {"extract", "except"})
            => file_exists

\* a step of ingest_document or of one of its page tasks
IngestionStep == Next /\ OpensTheFile

\* a document was uploaded, questions may have been asked about it, its
\* ingestion is enqueued
InitDelete ==
    /\ ingestion_concurrency \in {0, MaxConcurrency}
    /\ file_exists = TRUE
    /\ pdf_pages \in PdfFiles
    /\ documents_db = UploadedDoc
    /\ pages_db = {}
    /\ vectors = {}
    /\ now = 0
    /\ main = "idle"
    /\ main_error = ""
    /\ semaphore = 0
    /\ task = [p \in PageNos |-> NoTask]
    /\ faults = {}
    /\ RetrievalIdle
    /\ CitationsIdle
    /\ config = [openai_api_key |-> TRUE, allow_local_ollama |-> FALSE]
    /\ request = [page_no |-> 0, scope_mode |-> "page", llm_provider |-> "gpt",
                  embedding_provider |-> "openai_small"]
    /\ stream = NoStream
    /\ qa_db \in {{}, {StoredQa}}
    /\ PartsIdle

NextDelete ==
    \/ IngestionStep
    \/ \E is_owner \in BOOLEAN : DeleteDocument(is_owner)

SpecDelete == InitDelete /\ [][NextDelete]_vars

Deleted == deletion.pc = "returned"

\* C40: once delete_document has returned and the ingestion run has
\* finished, no page record, chunk vector or Q&A record of the deleted
\* document exists, also when the deletion ran during the ingestion
C40_DeleteCascadesDuringIngestion ==
    (Deleted /\ Finished) =>
        /\ find_pages_by_document(pages_db, DocId) = {}
        /\ \A v \in vectors : v.doc_id # DocId
        /\ find_qa_by_document(qa_db, DocId) = {}

====
